---- MODULE Spec2Model ----
(***************************************************************************)
(* State-machine model of the idealista listings crawl drivers:            *)
(*   src/src/idealista_scraper/scraping/listings_scraper.py   (sequential) *)
(*   src/src/idealista_scraper/scraping/async_listings_scraper.py (async)  *)
(* together with the parts of the persistence layer (db/models.py,         *)
(* db/base.py) and of the search-page parser (scraping/selectors.py) the   *)
(* drivers depend on.                                                      *)
(*                                                                         *)
(* One action is one blocking step of the driver task: a sequential page   *)
(* cycle (fetch, parse, upsert, commit), the concurrent driver's first     *)
(* page, one concurrent batch, the segment-loop step of _scrape_location,  *)
(* and the entry and the two exits of run().                               *)
(***************************************************************************)
EXTENDS Integers, Sequences, FiniteSets, TLC

\* --------------------------------------------------------------------------
\* Bounds of the model (not program constants)
\* --------------------------------------------------------------------------
MaxRuns == 2
MaxCombos == 2
MaxListings == 2
MaxPrice == 1
MaxPageSize == 1
MaxSegments == 3
MaxConcurrency == 1
MaxRetries == 2
MaxDelay == 3
MaxBase == 2
MaxDistricts == 2

\* --------------------------------------------------------------------------
\* Program constants
\* --------------------------------------------------------------------------
\* Python's None for the int | None values (prices, page numbers, ids)
None == -1
\* listings_scraper.py:34
MAX_PAGES_LIMIT == 60
\* async_listings_scraper.py:75 (default concurrency of AsyncListingsScraper)
DefaultConcurrency == 5
\* the single Concelho row's primary key, when the geography has been loaded
ConcelhoId == 1
\* no exception pending
NoError == ""

Min(a, b) == IF a <= b THEN a ELSE b

VARIABLES
    \* configuration and environment (fixed per behaviour, but for SiteChange)
    config,            \* RunConfig: mode, max_pages, min_price, max_price, concurrency, ncombos
    site,              \* the target site: [listings: price-descending, pageSize]
    concelhoExists,    \* whether a Concelho row exists for the location slug
    failPlan,          \* the fetches that fail after the client's retries
    parsePlan,         \* the pages whose parse raises, with the exception's type
    \* driver control state
    pc,                \* position of the driver task
    runNo,             \* number of run() invocations started
    combo,             \* index of the location/operation/property_type combination
    segment,           \* the ScrapeSegment being crawled: [max_price, min_price]
    segIdx,            \* ordinal of the segment within the location
    page,              \* sequential: page; concurrent: batch_start
    lowest_price_seen, \* lowest_price_seen / lowest_price local
    total_pages,       \* concurrent: total_pages local
    segStats,          \* stats of _scrape_segment (with next_max_price)
    locStats,          \* stats of _scrape_location
    runStats,          \* stats of run()
    concelho_cache,    \* self._concelho_cache
    exc,               \* exception propagating out of the crawl loop
    \* the session (unit of work) and the committed store
    listings,          \* Listing rows as the session sees them
    history,           \* ListingHistory rows as the session sees them
    sessionActive,     \* FALSE once a flush failed and no rollback was issued
    scrape_run,        \* the ScrapeRun object held by run()
    dbListings,        \* committed Listing rows
    dbHistory,         \* committed ListingHistory rows
    dbRuns,            \* committed ScrapeRun rows
    outcomes,          \* per run(): what the caller got
    \* history variables (observations, never read by the driver)
    upsertLog,         \* the upserts of the last page cycle / batch
    segPages,          \* pages of the current segment whose cards were processed
    segCards,          \* cards processed in the current segment, in order
    segFetchFailed,    \* pages of the current segment whose fetch failed
    segStartRows,      \* number of Listing rows when the current segment began
    segLog,            \* one entry per finished segment
    changes,           \* number of site changes so far
    invocations,       \* how many times the command is run in this behaviour
    \* the fetch tasks of one concurrent batch (_fetch_pages_batch)
    tasks,             \* page numbers of the tasks handed to asyncio.gather, in order
    inflight,          \* pages whose task holds the semaphore inside get_html
    completed,         \* FetchResults in the order the tasks finished
    \* one call of retry_with_backoff / async_retry_with_backoff
    retryArgs,         \* the call's arguments, and which of the two functions
    funcPlan,          \* what func does at its 1st, 2nd, ... invocation
    retryPc,           \* position inside the function
    attempt,           \* the loop variable
    calls,             \* outcomes of the invocations of func so far, in order
    sleeps,            \* the delays passed to sleep_with_jitter so far, in order
    retryOutcome,      \* what the caller got: a result or an exception
    \* the pre-scrape drivers (PreScraper, AsyncPreScraper)
    preMode,           \* which of the two drivers runs
    homepage,          \* what parse_homepage_districts gives: [slug, concelhos]
    preFail,           \* the fetches <<run, url>> that fail after the client's retries
    prePc,             \* position of the pre-scrape driver
    preRunNo,          \* number of pre-scrape run() invocations started
    districts_info,    \* districts_info of the current run
    preIdx,            \* index in districts_info of the next district to process
    preStats,          \* stats of the current run
    fetchLog,          \* the URLs passed to get_html in the current run, in order
    upsertsLog,        \* the district and concelho upserts of the current run
    dbDistricts,       \* District rows
    dbConcelhos,       \* Concelho rows
    dbPreRuns,         \* ScrapeRun rows of the pre-scrape drivers
    preOutcomes,       \* per pre-scrape run(): what the caller got
    \* the details driver (DetailsScraper)
    max_listings,      \* the driver's max_listings: None or a number
    detListings,       \* Listing rows of the store the details driver works on
    detPc,             \* position of the details driver
    detRunNo,          \* number of details run() invocations started
    detQueue,          \* indices of the rows selected by the current run, in order
    detBefore,         \* the Listing rows when the current run started
    detFetched,        \* indices of the rows whose detail page the current run requested
    detStats,          \* stats of the current run
    detRuns,           \* ScrapeRun rows of the details driver
    \* one invocation of a command of the command line
    cliArgs,           \* the command and its options
    cliPc,             \* position inside the command function
    effects,           \* what the invocation did so far, in order
    exit_code          \* the process exit code, None while running

envVars == <<config, site, concelhoExists, failPlan, parsePlan, changes, invocations>>
ctlVars == <<pc, runNo, combo, segment, segIdx, page, lowest_price_seen, total_pages,
             segStats, locStats, runStats, concelho_cache, exc>>
sessVars == <<listings, history, sessionActive, scrape_run>>
dbVars == <<dbListings, dbHistory, dbRuns, outcomes>>
obsVars == <<upsertLog, segPages, segCards, segFetchFailed, segStartRows, segLog>>
fetchVars == <<tasks, inflight, completed>>
retryVars == <<retryArgs, funcPlan, retryPc, attempt, calls, sleeps, retryOutcome>>
preVars == <<preMode, homepage, preFail, prePc, preRunNo, districts_info, preIdx,
             preStats, fetchLog, upsertsLog, dbDistricts, dbConcelhos, dbPreRuns,
             preOutcomes>>
detVars == <<max_listings, detListings, detPc, detRunNo, detQueue, detBefore, detFetched,
             detStats, detRuns>>
cliVars == <<cliArgs, cliPc, effects, exit_code>>
otherVars == <<retryVars, preVars, detVars, cliVars>>
crawlVars == <<envVars, ctlVars, sessVars, dbVars, obsVars, fetchVars>>
vars == <<envVars, ctlVars, sessVars, dbVars, obsVars, fetchVars, otherVars>>

\* --------------------------------------------------------------------------
\* The target site behind the Page Fetcher, and the search-page parser
\* --------------------------------------------------------------------------

\* build_search_url: maxPrice / minPrice are sent only when not None; the site
\* applies them inclusively and leaves unpriced listings out of a priced query.
Matches(l, seg) ==
    /\ seg.max_price = None \/ (l.price # None /\ l.price <= seg.max_price)
    /\ seg.min_price = None \/ (l.price # None /\ l.price >= seg.min_price)

\* the result list of a segment's query, in the order "precos-desc"
QueryResults(seg) == SelectSeq(site.listings, LAMBDA l : Matches(l, seg))

\* number of result pages of a segment's query
TotalPagesOf(seg) == (Len(QueryResults(seg)) + site.pageSize - 1) \div site.pageSize

\* the cards of result page p (build_paginated_url: page p of the same query)
PageCards(seg, p) ==
    LET q == QueryResults(seg)
        lo == (p - 1) * site.pageSize + 1
        hi == Min(p * site.pageSize, Len(q))
    IN  IF lo > hi THEN <<>> ELSE SubSeq(q, lo, hi)

\* parse_listings_page: the running minimum over the cards' prices
RECURSIVE LowestPrice(_, _)
LowestPrice(cards, lowest) ==
    IF cards = <<>> THEN lowest
    ELSE LET price == Head(cards).price
         IN  LowestPrice(Tail(cards),
                 IF price # None /\ (lowest = None \/ price < lowest)
                 THEN price ELSE lowest)

\* parse_listings_page: (listings, SearchMetadata)
ParseListingsPage(seg, p) ==
    LET cards == PageCards(seg, p)
        total == TotalPagesOf(seg)
    IN  [listings |-> cards,
         metadata |-> [page |-> p,
                       has_next_page |-> p < total,
                       last_page |-> IF total <= 1 THEN None ELSE total,
                       lowest_price_on_page |-> LowestPrice(cards, None)]]

\* PageClient.get_html raises RuntimeError once the retries are exhausted
FetchFails(p) == <<runNo, combo, segIdx, p>> \in failPlan

\* the exceptions parse_listings_page may raise on a page it cannot digest: a
\* RuntimeError (RecursionError is one) or another Exception
ParseErrorKinds == {"RuntimeError", "ValueError"}

\* the exception parse_listings_page raises on page p, NoError for none
ParseError(p) ==
    IF \E k \in ParseErrorKinds : <<runNo, combo, segIdx, p, k>> \in parsePlan
    THEN CHOOSE k \in ParseErrorKinds : <<runNo, combo, segIdx, p, k>> \in parsePlan
    ELSE NoError

\* --------------------------------------------------------------------------
\* Persistence layer: the session and the schema's constraints
\* --------------------------------------------------------------------------

\* Listing.idealista_id is unique
UniqueIds(rows) ==
    Cardinality({rows[i].idealista_id : i \in DOMAIN rows}) = Len(rows)

\* Listing.concelho_id is declared nullable=False
NotNullOk(rows) == \A i \in DOMAIN rows : rows[i].concelho_id # None

\* a flush of the session's pending rows succeeds iff the constraints hold
FlushOk(rows) == NotNullOk(rows) /\ UniqueIds(rows)

\* mutant of FindExisting: the lookup keyed by price instead of idealista_id
FindExistingByPrice(rows, card) ==
    IF \E i \in DOMAIN rows : rows[i].price = card.price
    THEN CHOOSE i \in DOMAIN rows :
            /\ rows[i].price = card.price
            /\ \A j \in DOMAIN rows : rows[j].price = card.price => i <= j
    ELSE 0

\* session.query(Listing).filter_by(idealista_id=card.idealista_id).first():
\* the index of the first matching row, 0 for no row
FindExisting(rows, card) ==
    IF \E i \in DOMAIN rows : rows[i].idealista_id = card.idealista_id
    THEN CHOOSE i \in DOMAIN rows :
            /\ rows[i].idealista_id = card.idealista_id
            /\ \A j \in DOMAIN rows : rows[j].idealista_id = card.idealista_id => i <= j
    ELSE 0

\* _get_concelho: the cached value, else the store's answer
LookupConcelho == IF concelhoExists THEN ConcelhoId ELSE None
GetConcelho(cache, slug) ==
    IF slug \in DOMAIN cache THEN cache[slug] ELSE LookupConcelho
\* mutant of CacheAfter: the store's answer is not kept
CacheNever(cache, slug) == cache

CacheAfter(cache, slug) ==
    IF slug \in DOMAIN cache THEN cache
    ELSE [k \in DOMAIN cache \cup {slug} |->
            IF k = slug THEN LookupConcelho ELSE cache[k]]

\* the null of a string-valued column (None stands for the numeric ones)
NoneStr == "None"

\* _parse_details, "re.match(r'^(t\d\+?)$', detail_lower)" and
\* "typology = typology_match.group(1).upper()", over the detail strings used
TypologyMatch(detail) ==
    CASE detail \in {"T0", "t0"} -> "T0"
      [] detail \in {"T2", "t2"} -> "T2"
      [] OTHER -> NoneStr

\* _parse_details: "bedrooms = int(re.search(r'(\d+)', typology).group(1))"
TypologyDigits(typology) == IF typology = "T0" THEN 0 ELSE 2

\* _parse_details: "re.search(r'([\d.,]+)\s*m2', detail)" and float(area_str)
\* ("m2" is written for the square-metre sign)
AreaMatch(detail) ==
    CASE detail \in {"90 m2", "90 m2 area bruta"} -> 90
      [] detail = "0 m2" -> 0
      [] OTHER -> None

\* _parse_details: "re.search(r'(\d+)\s*quarto', detail_lower)"
QuartoMatch(detail) ==
    CASE detail \in {"3 quartos", "3 Quartos"} -> 3
      [] OTHER -> None

NullDetails == [typology |-> NoneStr, area_gross |-> None, bedrooms |-> None]

\* _parse_details: one detail string, the first matching branch
ParseDetail(acc, typology, area, quartos) ==
    IF typology # NoneStr
    THEN [acc EXCEPT !.typology = typology, !.bedrooms = TypologyDigits(typology)]
    ELSE IF area # None
    THEN [acc EXCEPT !.area_gross = area]
    ELSE IF quartos # None /\ acc.bedrooms = None
    THEN [acc EXCEPT !.bedrooms = quartos]
    ELSE acc

\* _parse_details: "for detail in details_raw"
RECURSIVE ParseDetailsFrom(_, _)
ParseDetailsFrom(details_raw, acc) ==
    IF details_raw = <<>> THEN acc
    ELSE ParseDetailsFrom(Tail(details_raw),
                          ParseDetail(acc, TypologyMatch(Head(details_raw)),
                                      AreaMatch(Head(details_raw)),
                                      QuartoMatch(Head(details_raw))))

\* _parse_details: (typology, area_gross, bedrooms)
ParseDetails(details_raw) == ParseDetailsFrom(details_raw, NullDetails)

\* the three enrichment columns of a row
DetailsOf(row) ==
    [typology |-> row.typology, area_gross |-> row.area_gross,
     bedrooms |-> row.bedrooms]

\* _upsert_listing_card: "now = datetime.now(UTC)".  The clock is read as the
\* number of the invocation: it never runs backwards, a later invocation
\* reads a later time, and the readings within one invocation are equal
Now == runNo

\* _create_listing: session.add(Listing(...)); the row id is its insert position
NewListing(id, concelho, card, parsed) ==
    [id |-> id,
     idealista_id |-> card.idealista_id,
     concelho_id |-> concelho,
     price |-> card.price,
     typology |-> parsed.typology,
     area_gross |-> parsed.area_gross,
     bedrooms |-> parsed.bedrooms,
     first_seen |-> Now,
     last_seen |-> Now,
     is_active |-> TRUE]

CreateListing(rows, concelho, card) ==
    Append(rows, NewListing(Len(rows) + 1, concelho, card,
                            ParseDetails(card.details_raw)))

\* mutant of PriceChanged: a history row on every update
PriceChangedAlways(card, listing) == TRUE

\* _update_listing: "if card.price != listing.price"
PriceChanged(card, listing) == card.price # listing.price

\* _update_listing: the ListingHistory row added on a price change
HistoryRow(listing, card) ==
    [listing_id |-> listing.id, price |-> listing.price,
     old |-> listing.price, new |-> card.price]

\* _update_listing: the history rows after the update
UpdateHistory(hist, listing, card) ==
    IF PriceChanged(card, listing) THEN Append(hist, HistoryRow(listing, card))
    ELSE hist

\* the values Python takes as false in "if typology:" and in
\* "if area_gross:" / "if bedrooms:"
FalsyStr == {NoneStr, ""}
FalsyNum == {None, 0}

\* mutant of AssignIfParsed: the parsed value is assigned unconditionally
AssignAlways(current, parsed, falsy) == parsed

\* _update_listing: "if typology: listing.typology = typology" and the same
\* for area_gross and bedrooms
AssignIfParsed(current, parsed, falsy) ==
    IF parsed \in falsy THEN current ELSE parsed

\* mutant of UpdatedListing: the update deactivates the row
DeactivatedListing(listing, card, parsed) ==
    [listing EXCEPT !.price = card.price, !.is_active = FALSE]

\* mutant of UpdatedListing: last_seen is left as it was
UpdatedListingUnseen(listing, card, parsed) ==
    [listing EXCEPT !.price = card.price,
                    !.is_active = TRUE,
                    !.typology = AssignIfParsed(@, parsed.typology, FalsyStr),
                    !.area_gross = AssignIfParsed(@, parsed.area_gross, FalsyNum),
                    !.bedrooms = AssignIfParsed(@, parsed.bedrooms, FalsyNum)]

\* _update_listing: the fields of the row after the update
UpdatedListing(listing, card, parsed) ==
    [listing EXCEPT !.price = card.price,
                    !.last_seen = Now,
                    !.is_active = TRUE,
                    !.typology = AssignIfParsed(@, parsed.typology, FalsyStr),
                    !.area_gross = AssignIfParsed(@, parsed.area_gross, FalsyNum),
                    !.bedrooms = AssignIfParsed(@, parsed.bedrooms, FalsyNum)]

\* _update_listing: the overwritten fields
UpdateListing(rows, idx, card) ==
    [rows EXCEPT ![idx] = UpdatedListing(@, card, ParseDetails(card.details_raw))]

\* mutant of CountUpsert: the created flag is read inverted
CountUpsertInverted(stats, created) ==
    [stats EXCEPT !.listings_processed = @ + 1,
                  !.listings_created = IF created THEN @ ELSE @ + 1,
                  !.listings_updated = IF created THEN @ + 1 ELSE @]

\* the card loop's counting: listings_processed, then created or updated
CountUpsert(stats, created) ==
    [stats EXCEPT !.listings_processed = @ + 1,
                  !.listings_created = IF created THEN @ + 1 ELSE @,
                  !.listings_updated = IF created THEN @ ELSE @ + 1]

\* what one upsert did (history variable): the row before, the card's parse
\* and the row after
UpsertEntry(s, card, slug, idx, row, hist2, nrows) ==
    [idealista_id |-> card.idealista_id,
     slug |-> slug,
     queried |-> slug \notin DOMAIN s.cache,
     concelho |-> GetConcelho(s.cache, slug),
     created |-> idx = 0,
     existed |-> \E i \in DOMAIN s.listings :
                    s.listings[i].idealista_id = card.idealista_id,
     stored |-> IF idx = 0 THEN None ELSE s.listings[idx].price,
     incoming |-> card.price,
     nhist |-> Len(hist2) - Len(s.history),
     hist |-> IF Len(hist2) > Len(s.history) THEN <<hist2[Len(hist2)]>> ELSE <<>>,
     priceAfter |-> row.price,
     before |-> IF idx = 0 THEN NullDetails ELSE DetailsOf(s.listings[idx]),
     parsed |-> ParseDetails(card.details_raw),
     after |-> DetailsOf(row),
     rowsBefore |-> Len(s.listings),
     rowsAfter |-> nrows]

\* _upsert_listing_card after its branch: the session with the rows and the
\* history rows the branch left
UpsertResult(s, card, slug, idx, rows2, hist2) ==
    [listings |-> rows2,
     history |-> hist2,
     cache |-> CacheAfter(s.cache, slug),
     stats |-> CountUpsert(s.stats, idx = 0),
     log |-> Append(s.log,
                    UpsertEntry(s, card, slug, idx,
                                rows2[IF idx = 0 THEN Len(rows2) ELSE idx],
                                hist2, Len(rows2))),
     error |-> NoError]

\* _upsert_listing_card: "if existing: _update_listing(...)" else
\* "_create_listing(...)", idx the row found (0 for none)
UpsertBranch(s, card, slug, idx) ==
    IF idx = 0
    THEN UpsertResult(s, card, slug, idx,
                      CreateListing(s.listings, GetConcelho(s.cache, slug), card),
                      s.history)
    ELSE UpsertResult(s, card, slug, idx,
                      UpdateListing(s.listings, idx, card),
                      UpdateHistory(s.history, s.listings[idx], card))

\* one pass of "for card in listings": created = self._upsert_listing_card(...)
\* s = [listings, history, cache, stats, log, error].  The first query of an
\* upsert autoflushes the session; a failed flush raises out of the loop.
UpsertListingCard(s, card, slug) ==
    IF ~FlushOk(s.listings) THEN [s EXCEPT !.error = "IntegrityError"]
    ELSE UpsertBranch(s, card, slug, FindExisting(s.listings, card))

RECURSIVE ProcessCards(_, _, _)
ProcessCards(s, cards, slug) ==
    IF cards = <<>> \/ s.error # NoError THEN s
    ELSE ProcessCards(UpsertListingCard(s, Head(cards), slug), Tail(cards), slug)

\* the processed prefix of a card list (history variable)
Processed(s0, s1, cards) ==
    SubSeq(cards, 1, Len(s1.log) - Len(s0.log))

ZeroSegStats == [listings_processed |-> 0, listings_created |-> 0,
                 listings_updated |-> 0, pages_scraped |-> 0,
                 next_max_price |-> None]
ZeroStats == [listings_processed |-> 0, listings_created |-> 0,
              listings_updated |-> 0, pages_scraped |-> 0,
              segments_scraped |-> 0]

\* mutant of AddStats: the totals are overwritten, not accumulated
AddStatsLast(stats, delta, segs) ==
    [listings_processed |-> delta.listings_processed,
     listings_created |-> delta.listings_created,
     listings_updated |-> delta.listings_updated,
     pages_scraped |-> delta.pages_scraped,
     segments_scraped |-> segs]

\* "for key in stats: stats[key] += segment_stats.get(key)" for the int values
AddStats(stats, delta, segs) ==
    [listings_processed |-> stats.listings_processed + delta.listings_processed,
     listings_created |-> stats.listings_created + delta.listings_created,
     listings_updated |-> stats.listings_updated + delta.listings_updated,
     pages_scraped |-> stats.pages_scraped + delta.pages_scraped,
     segments_scraped |-> stats.segments_scraped + segs]

\* mutant of MaxPages: the configured cap is taken as it is
MaxPagesConfigured ==
    IF config.max_pages = None THEN MAX_PAGES_LIMIT ELSE config.max_pages

\* min(self.config.scraping.max_pages or MAX_PAGES_LIMIT, MAX_PAGES_LIMIT)
MaxPages ==
    Min(IF config.max_pages = None THEN MAX_PAGES_LIMIT ELSE config.max_pages,
        MAX_PAGES_LIMIT)


\* --------------------------------------------------------------------------
\* The driver
\* --------------------------------------------------------------------------

\* the session as a page cycle finds it
SessState == [listings |-> listings, history |-> history, cache |-> concelho_cache,
              stats |-> segStats, log |-> <<>>, error |-> NoError]

\* session.commit() succeeds iff the transaction is usable and the flush succeeds
CommitOk(s) == s.error = NoError /\ sessionActive /\ FlushOk(s.listings)

\* ScrapeRun(run_type=..., status="running", started_at=now, config=...)
NewScrapeRun == [status |-> "running", ended_at |-> FALSE, error_message |-> NoError,
                 listings_processed |-> 0, listings_created |-> 0,
                 listings_updated |-> 0]

\* scrape_run.status = ...; .ended_at = now; the three counters from stats
CloseScrapeRun(run, status, message, stats) ==
    [status |-> status, ended_at |-> TRUE, error_message |-> message,
     listings_processed |-> stats.listings_processed,
     listings_created |-> stats.listings_created,
     listings_updated |-> stats.listings_updated]

\* ScrapeSegment(..., max_price=self.config.filters.max_price, min_price=...)
FirstSegment == [max_price |-> config.max_price, min_price |-> config.min_price]

\* "if segment.min_price is not None and next_max_price <= segment.min_price"
FloorReached(seg, next_max_price) ==
    seg.min_price # None /\ next_max_price <= seg.min_price

\* ScrapeSegment(..., max_price=next_max_price, min_price=segment.min_price)
NextSegment(seg, next_max_price) ==
    [max_price |-> next_max_price, min_price |-> seg.min_price]

\* sequential: "if metadata.lowest_price_on_page is not None and
\* (lowest_price_seen is None or metadata.lowest_price_on_page < lowest_price_seen)"
TrackLowest(seen, page_lowest) ==
    IF page_lowest # None /\ (seen = None \/ page_lowest < seen)
    THEN page_lowest ELSE seen

\* mutant of SyncNextMaxPrice: the boundary set without the page-limit test
SyncNextMaxPriceEager(p, has_next_page, lowest) ==
    IF has_next_page /\ lowest # None THEN lowest ELSE None

\* sequential: "if page >= MAX_PAGES_LIMIT: if lowest_price_seen is not None:"
\* reached only after "if not metadata.has_next_page: break"
SyncNextMaxPrice(p, has_next_page, lowest) ==
    IF has_next_page /\ p >= MAX_PAGES_LIMIT /\ lowest # None THEN lowest ELSE None

\* the entry of _scrape_segment / _scrape_segment_async
BeginSegment ==
    /\ pc' = IF config.mode = "sync" THEN "sync_page" ELSE "async_first"
    /\ page' = 1
    /\ lowest_price_seen' = None
    /\ total_pages' = 0
    /\ segStats' = ZeroSegStats
    /\ segPages' = {}
    /\ segCards' = <<>>
    /\ segFetchFailed' = {}
    /\ segStartRows' = Len(listings)
    /\ upsertLog' = <<>>

\* an exception leaves the crawl loop: the failed flush has rolled the session's
\* transaction back and left it inactive
RaiseIntegrityError(s) ==
    /\ pc' = "except"
    /\ exc' = "IntegrityError"
    /\ listings' = dbListings
    /\ history' = dbHistory
    /\ sessionActive' = FALSE
    /\ concelho_cache' = s.cache
    /\ segStats' = s.stats
    /\ upsertLog' = s.log
    /\ UNCHANGED <<runNo, combo, segment, segIdx, page, lowest_price_seen, total_pages,
                   locStats, runStats, scrape_run, dbVars,
                   segPages, segCards, segFetchFailed, segStartRows, segLog>>

\* an exception of the parser leaves the crawl loop: the session keeps what the
\* cards processed so far have added to it
RaiseParseError(s, kind) ==
    /\ pc' = "except"
    /\ exc' = kind
    /\ listings' = s.listings
    /\ history' = s.history
    /\ concelho_cache' = s.cache
    /\ segStats' = s.stats
    /\ upsertLog' = s.log
    /\ UNCHANGED <<runNo, combo, segment, segIdx, page, lowest_price_seen, total_pages,
                   locStats, runStats, sessionActive, scrape_run, dbVars,
                   segPages, segCards, segFetchFailed, segStartRows, segLog>>

CardIds(cards) == [i \in DOMAIN cards |-> cards[i].idealista_id]

\* mutant of BreakOnFetchError: the RuntimeError is not caught
RaiseOnFetchError ==
    /\ pc' = "except"
    /\ exc' = "RuntimeError"
    /\ segFetchFailed' = IF FetchFails(page) THEN segFetchFailed \cup {page}
                         ELSE segFetchFailed
    /\ upsertLog' = <<>>
    /\ UNCHANGED <<runNo, combo, segment, segIdx, page, lowest_price_seen,
                   total_pages, segStats, locStats, runStats, concelho_cache,
                   sessVars, dbVars, segPages, segCards, segStartRows, segLog>>

\* sequential: "except RuntimeError as e: logger.error(...); break"
BreakOnFetchError ==
    /\ pc' = "segment_end"
    /\ segFetchFailed' = IF FetchFails(page) THEN segFetchFailed \cup {page}
                         ELSE segFetchFailed
    /\ upsertLog' = <<>>
    /\ UNCHANGED <<runNo, combo, segment, segIdx, page, lowest_price_seen,
                   total_pages, segStats, locStats, runStats, concelho_cache, exc,
                   sessVars, dbVars, segPages, segCards, segStartRows, segLog>>

\* mutant of ReturnOnFirstPageError: the failure of the first page is raised
RaiseOnFirstPageError ==
    /\ pc' = "except"
    /\ exc' = "RuntimeError"
    /\ segFetchFailed' = segFetchFailed \cup {1}
    /\ upsertLog' = <<>>
    /\ UNCHANGED <<runNo, combo, segment, segIdx, page, lowest_price_seen,
                   total_pages, segStats, locStats, runStats, concelho_cache,
                   sessVars, dbVars, segPages, segCards, segStartRows, segLog>>

\* concurrent: "if first_result.html is None: logger.error(...); return stats"
ReturnOnFirstPageError ==
    /\ pc' = "segment_end"
    /\ segFetchFailed' = segFetchFailed \cup {1}
    /\ upsertLog' = <<>>
    /\ UNCHANGED <<runNo, combo, segment, segIdx, page, lowest_price_seen,
                   total_pages, segStats, locStats, runStats, concelho_cache, exc,
                   sessVars, dbVars, segPages, segCards, segStartRows, segLog>>

\* run(): session = self.session_factory(); scrape_run = self._create_scrape_run(session)
Run ==
    /\ pc = "idle"
    /\ runNo < invocations
    /\ runNo' = runNo + 1
    /\ pc' = "location"
    /\ combo' = 1
    /\ runStats' = ZeroStats
    /\ concelho_cache' = <<>>
    /\ exc' = NoError
    /\ listings' = dbListings
    /\ history' = dbHistory
    /\ sessionActive' = TRUE
    /\ scrape_run' = NewScrapeRun
    /\ dbRuns' = Append(dbRuns, NewScrapeRun)
    /\ upsertLog' = <<>>
    /\ UNCHANGED <<otherVars, envVars, fetchVars, segment, segIdx, page, lowest_price_seen, total_pages,
                   segStats, locStats, dbListings, dbHistory, outcomes,
                   segPages, segCards, segFetchFailed, segStartRows, segLog>>

\* run(): the next iteration of the loops over locations, operations and
\* property types calls _scrape_location, which builds the first segment
ScrapeLocation ==
    /\ pc = "location"
    /\ combo <= config.ncombos
    /\ locStats' = ZeroStats
    /\ segment' = FirstSegment
    /\ segIdx' = 1
    /\ BeginSegment
    /\ UNCHANGED <<otherVars, envVars, fetchVars, runNo, combo, runStats, concelho_cache, exc,
                   sessVars, dbVars, segLog>>

\* _scrape_segment: one iteration of "while page <= max_pages"
\* mutant of NextPage: every other page
NextPageSkipping(p) == p + 2

\* _scrape_segment: "page += 1"
NextPage(p) == p + 1

SyncPage ==
    /\ pc = "sync_page"
    /\ IF FetchFails(page) \/ ParseError(page) = "RuntimeError"
       THEN BreakOnFetchError /\ UNCHANGED <<otherVars, envVars, fetchVars>>
       ELSE IF ParseError(page) # NoError
       THEN \* no handler for it in _scrape_segment
            RaiseParseError(SessState, ParseError(page)) /\ UNCHANGED <<otherVars, envVars, fetchVars>>
       ELSE LET parsed == ParseListingsPage(segment, page)
                md == parsed.metadata
                s1 == ProcessCards(SessState, parsed.listings, combo)
                lowest == TrackLowest(lowest_price_seen, md.lowest_price_on_page)
                more == md.has_next_page /\ page < MAX_PAGES_LIMIT
                        /\ NextPage(page) <= MaxPages
            IN  IF ~CommitOk(s1)
                THEN RaiseIntegrityError(s1) /\ UNCHANGED <<otherVars, envVars, fetchVars>>
                ELSE /\ listings' = s1.listings
                     /\ history' = s1.history
                     /\ dbListings' = s1.listings
                     /\ dbHistory' = s1.history
                     /\ concelho_cache' = s1.cache
                     /\ upsertLog' = s1.log
                     /\ segStats' = [s1.stats EXCEPT
                            !.pages_scraped = @ + 1,
                            !.next_max_price =
                                SyncNextMaxPrice(page, md.has_next_page, lowest)]
                     /\ lowest_price_seen' = lowest
                     /\ segPages' = segPages \cup {page}
                     /\ segCards' = segCards \o CardIds(parsed.listings)
                     /\ page' = IF more THEN NextPage(page) ELSE page
                     /\ pc' = IF more THEN "sync_page" ELSE "segment_end"
                     /\ UNCHANGED <<otherVars, envVars, fetchVars, runNo, combo, segment, segIdx,
                                    total_pages, locStats, runStats, exc,
                                    sessionActive, scrape_run, dbRuns, outcomes,
                                    segFetchFailed, segStartRows, segLog>>


\* _process_page_results: the card loop, then stats["pages_scraped"] += 1
ProcessPageResults(s, cards, slug) ==
    LET s1 == ProcessCards(s, cards, slug)
    IN  IF s1.error # NoError THEN s1
        ELSE [s1 EXCEPT !.stats.pages_scraped = @ + 1]

\* concurrent: "total_pages = min(metadata.last_page or 1, max_pages)"
AsyncTotalPages(md) ==
    Min(IF md.last_page = None \/ md.last_page = 0 THEN 1 ELSE md.last_page, MaxPages)

\* concurrent: "if page_lowest and (lowest_price is None or page_lowest < lowest_price)"
AsyncTrackLowest(lowest, page_lowest) ==
    IF (page_lowest # None /\ page_lowest # 0)
       /\ (lowest = None \/ page_lowest < lowest)
    THEN page_lowest ELSE lowest

\* concurrent: "if total_pages >= MAX_PAGES_LIMIT and lowest_price is not None"
AsyncNextMaxPrice(total, lowest) ==
    IF total >= MAX_PAGES_LIMIT /\ lowest # None THEN lowest ELSE None

\* mutant of BatchSize: three pages per permit
BatchSizeTriple == config.concurrency * 3

\* concurrent: "batch_size = self.concurrency * 2"
BatchSize == config.concurrency * 2

\* _fetch_page: FetchResult(page_num, html), html None when get_html raised;
\* the html of a fetched page is represented by its page number
FetchResult(p) == [page_num |-> p, html |-> IF FetchFails(p) THEN None ELSE p]

\* mutant of BatchPages: the range starts one page early, so that the first
\* batch fetches page 1 along with pages 2 and later
BatchPagesFromFirst ==
    [i \in 1..(Min(page + BatchSize - 1, total_pages) - page + 2) |-> page + i - 2]

\* mutant of BatchPages: the range ends one page late, so that a batch fetches
\* the first page of the batch after it
BatchPagesOverlapping ==
    [i \in 1..(Min(page + BatchSize, total_pages) - page + 1) |-> page + i - 1]

\* _fetch_pages_batch: "for page in range(start_page, end_page + 1)"
BatchPages ==
    [i \in 1..(Min(page + BatchSize - 1, total_pages) - page + 1) |-> page + i - 1]

\* asyncio.gather(*tasks): the results in the order of the tasks, whatever the
\* order they finished in
Gather(ts, done) ==
    [i \in DOMAIN ts |->
        done[CHOOSE j \in DOMAIN done : done[j].page_num = ts[i]]]

\* mutant of SortByPageNum: the sort with reverse=True
SortByPageNumReversed(rs) ==
    [i \in DOMAIN rs |->
        rs[CHOOSE j \in DOMAIN rs :
              Cardinality({k \in DOMAIN rs :
                  \/ rs[k].page_num > rs[j].page_num
                  \/ rs[k].page_num = rs[j].page_num /\ k < j}) = i - 1]]

\* sorted(results, key=lambda r: r.page_num): a stable sort
SortByPageNum(rs) ==
    [i \in DOMAIN rs |->
        rs[CHOOSE j \in DOMAIN rs :
              Cardinality({k \in DOMAIN rs :
                  \/ rs[k].page_num < rs[j].page_num
                  \/ rs[k].page_num = rs[j].page_num /\ k < j}) = i - 1]]

\* mutant of SkipFailedPage: the failed fetch raised out of the loop
AbortOnFailedPage(b, p) ==
    [b EXCEPT !.failed = @ \cup {p}, !.s.error = "RuntimeError"]

\* concurrent: "if result.html is None: logger.warning(...); continue"
SkipFailedPage(b, p) == [b EXCEPT !.failed = @ \cup {p}]

\* concurrent: "for result in sorted(results, key=lambda r: r.page_num)" over
\* the results rs of one batch; b = [s, lowest, pages, failed, cards]
RECURSIVE ProcessBatch(_, _, _, _)
ProcessBatch(b, seg, slug, rs) ==
    IF rs = <<>> \/ b.s.error # NoError THEN b
    ELSE LET p == Head(rs).page_num IN
    IF Head(rs).html = None
    THEN \* "if result.html is None: ... continue"
         ProcessBatch(SkipFailedPage(b, p), seg, slug, Tail(rs))
    ELSE IF ParseError(p) # NoError
    THEN \* parse_listings_page raises out of the loop
         [b EXCEPT !.s.error = ParseError(p)]
    ELSE LET parsed == ParseListingsPage(seg, p)
             s1 == ProcessPageResults(b.s, parsed.listings, slug)
         IN  ProcessBatch(
                 [s |-> s1,
                  lowest |-> IF s1.error # NoError THEN b.lowest
                             ELSE AsyncTrackLowest(b.lowest,
                                      parsed.metadata.lowest_price_on_page),
                  pages |-> IF s1.error # NoError THEN b.pages ELSE b.pages \cup {p},
                  failed |-> b.failed,
                  cards |-> b.cards \o CardIds(Processed(b.s, s1, parsed.listings))],
                 seg, slug, Tail(rs))

\* _scrape_segment_async: the first page, fetched alone
AsyncFirstPage ==
    /\ pc = "async_first"
    /\ IF FetchFails(1)
       THEN ReturnOnFirstPageError /\ UNCHANGED <<otherVars, envVars, fetchVars>>
       ELSE IF ParseError(1) # NoError
       THEN \* parse_listings_page is called outside any try
            RaiseParseError(SessState, ParseError(1)) /\ UNCHANGED <<otherVars, envVars, fetchVars>>
       ELSE LET parsed == ParseListingsPage(segment, 1)
                md == parsed.metadata
                s1 == ProcessPageResults(SessState, parsed.listings, combo)
                total == AsyncTotalPages(md)
                single == total <= 1 \/ ~md.has_next_page
            IN  IF s1.error # NoError \/ (single /\ ~CommitOk(s1))
                THEN RaiseIntegrityError(s1) /\ UNCHANGED <<otherVars, envVars, fetchVars>>
                ELSE /\ listings' = s1.listings
                     /\ history' = s1.history
                     /\ dbListings' = IF single THEN s1.listings ELSE dbListings
                     /\ dbHistory' = IF single THEN s1.history ELSE dbHistory
                     /\ concelho_cache' = s1.cache
                     /\ upsertLog' = s1.log
                     /\ segStats' = s1.stats
                     /\ lowest_price_seen' = md.lowest_price_on_page
                     /\ total_pages' = total
                     /\ segPages' = segPages \cup {1}
                     /\ segCards' = segCards \o CardIds(parsed.listings)
                     /\ page' = IF single THEN 1 ELSE 2
                     /\ pc' = IF single THEN "segment_end" ELSE "async_batch"
                     /\ UNCHANGED <<otherVars, envVars, fetchVars, runNo, combo, segment, segIdx,
                                    locStats, runStats, exc, sessionActive,
                                    scrape_run, dbRuns, outcomes,
                                    segFetchFailed, segStartRows, segLog>>

\* _scrape_segment_async: the loop body after _fetch_pages_batch returned
\* results: the sorted results processed in turn, then "session.commit()"
ProcessBatchResults(results) ==
    LET b == ProcessBatch([s |-> SessState, lowest |-> lowest_price_seen,
                           pages |-> segPages, failed |-> segFetchFailed,
                           cards |-> segCards],
                          segment, combo, SortByPageNum(results))
        last == page + BatchSize > total_pages
    IN  IF b.s.error \in ParseErrorKinds
        THEN RaiseParseError(b.s, b.s.error) /\ UNCHANGED <<otherVars, envVars>>
        ELSE IF ~CommitOk(b.s)
        THEN RaiseIntegrityError(b.s) /\ UNCHANGED <<otherVars, envVars>>
        ELSE /\ listings' = b.s.listings
             /\ history' = b.s.history
             /\ dbListings' = b.s.listings
             /\ dbHistory' = b.s.history
             /\ concelho_cache' = b.s.cache
             /\ upsertLog' = b.s.log
             /\ segStats' = [b.s.stats EXCEPT !.next_max_price =
                     IF last THEN AsyncNextMaxPrice(total_pages, b.lowest)
                     ELSE None]
             /\ lowest_price_seen' = b.lowest
             /\ segPages' = b.pages
             /\ segFetchFailed' = b.failed
             /\ segCards' = b.cards
             /\ page' = IF last THEN page ELSE page + BatchSize
             /\ pc' = IF last THEN "segment_end" ELSE "async_batch"
             /\ UNCHANGED <<otherVars, envVars, runNo, combo, segment, segIdx, total_pages,
                            locStats, runStats, exc, sessionActive, scrape_run,
                            dbRuns, outcomes, segStartRows, segLog>>

\* _scrape_segment_async: one iteration of
\* "for batch_start in range(2, total_pages + 1, batch_size)", the fetches of
\* the batch taken as one step
AsyncBatch ==
    /\ pc = "async_batch"
    /\ ProcessBatchResults([i \in DOMAIN BatchPages |-> FetchResult(BatchPages[i])])
    /\ UNCHANGED fetchVars

\* --------------------------------------------------------------------------
\* The same iteration with the fetch tasks of the batch as separate steps
\* --------------------------------------------------------------------------

\* _fetch_pages_batch: one _fetch_page coroutine per page, handed to gather
BatchDispatch ==
    /\ pc = "async_batch"
    /\ pc' = "batch_fetch"
    /\ tasks' = BatchPages
    /\ completed' = <<>>
    /\ UNCHANGED <<otherVars, envVars, runNo, combo, segment, segIdx, page, lowest_price_seen,
                   total_pages, segStats, locStats, runStats, concelho_cache, exc,
                   sessVars, dbVars, obsVars, inflight>>

\* mutant of SemaphoreFree: no limit
SemaphoreUnbounded == TRUE

\* asyncio.Semaphore(self.concurrency): a permit is left
SemaphoreFree == Cardinality(inflight) < config.concurrency

\* the pages of the batch whose task has not entered the semaphore yet
Waiting ==
    {tasks[i] : i \in DOMAIN tasks} \
        (inflight \cup {completed[j].page_num : j \in DOMAIN completed})

\* _fetch_page: "async with self._semaphore:" entered, get_html started
FetchStart(p) ==
    /\ pc = "batch_fetch"
    /\ p \in Waiting
    /\ SemaphoreFree
    /\ inflight' = inflight \cup {p}
    /\ UNCHANGED <<otherVars, envVars, ctlVars, sessVars, dbVars, obsVars, tasks, completed>>

\* mutant of FetchDone: the FetchResult is returned with the permit still held
FetchDoneHolding(p) ==
    /\ pc = "batch_fetch"
    /\ p \in inflight
    /\ \A k \in DOMAIN completed : completed[k].page_num # p
    /\ completed' = Append(completed, FetchResult(p))
    /\ UNCHANGED <<otherVars, envVars, ctlVars, sessVars, dbVars, obsVars, tasks,
                   inflight>>

\* _fetch_page: get_html returned or raised; the FetchResult is returned and
\* the semaphore released
FetchDone(p) ==
    /\ pc = "batch_fetch"
    /\ p \in inflight
    /\ inflight' = inflight \ {p}
    /\ completed' = Append(completed, FetchResult(p))
    /\ UNCHANGED <<otherVars, envVars, ctlVars, sessVars, dbVars, obsVars, tasks>>

\* mutant of BatchProcess: the results at hand are processed as soon as one
\* task has finished
BatchProcessEarly ==
    /\ pc = "batch_fetch"
    /\ completed # <<>>
    /\ ProcessBatchResults(completed)
    /\ tasks' = <<>>
    /\ UNCHANGED <<inflight, completed>>

\* "results = await asyncio.gather(*tasks)" returns once every task has
\* finished; the loop body then processes the results
BatchProcess ==
    /\ pc = "batch_fetch"
    /\ Len(completed) = Len(tasks)
    /\ ProcessBatchResults(Gather(tasks, completed))
    /\ tasks' = <<>>
    /\ UNCHANGED <<inflight, completed>>

\* what a finished segment showed (history variable): the lowest price among
\* the pages whose cards were processed
ObservedLowest(seg, pages) ==
    LET seen == {ParseListingsPage(seg, p).metadata.lowest_price_on_page : p \in pages}
                    \ {None}
    IN  IF seen = {} THEN None
        ELSE CHOOSE m \in seen : \A x \in seen : m <= x

\* the priced listings the location's query matches (history variable)
PricedMatching ==
    {site.listings[i] : i \in {k \in DOMAIN site.listings :
        site.listings[k].price # None /\ Matches(site.listings[k], FirstSegment)}}

SegLogEntry ==
    [run |-> runNo, combo |-> combo, idx |-> segIdx, segment |-> segment,
     mode |-> config.mode,
     pages |-> segPages, failed |-> segFetchFailed, cards |-> segCards,
     created |-> segStats.listings_created, updated |-> segStats.listings_updated,
     pages_scraped |-> segStats.pages_scraped,
     next_max_price |-> segStats.next_max_price,
     total |-> TotalPagesOf(segment),
     lowest |-> ObservedLowest(segment, segPages),
     rows_before |-> segStartRows,
     rows |-> Len(listings),
     matching |-> {l.idealista_id : l \in PricedMatching},
     strata |-> Cardinality({l.price : l \in PricedMatching}),
     committed |-> {dbListings[i].idealista_id : i \in DOMAIN dbListings}]

\* _scrape_location: the body of "while True" after _scrape_segment returned,
\* and, when the loop ends, run()'s accumulation of the location's stats
EndSegment ==
    /\ pc = "segment_end"
    /\ LET stats == AddStats(locStats, segStats, 1)
           next_max_price == segStats.next_max_price
           done == next_max_price = None \/ FloorReached(segment, next_max_price)
       IN  /\ done \/ segIdx < MaxSegments
           /\ locStats' = stats
           /\ segLog' = Append(segLog, SegLogEntry)
           /\ IF done
              THEN /\ runStats' = AddStats(runStats, stats, stats.segments_scraped)
                   /\ combo' = combo + 1
                   /\ pc' = "location"
                   /\ UNCHANGED <<segment, segIdx, page, lowest_price_seen,
                                  total_pages, segStats, upsertLog, segPages,
                                  segCards, segFetchFailed, segStartRows>>
              ELSE /\ segment' = NextSegment(segment, next_max_price)
                   /\ segIdx' = segIdx + 1
                   /\ BeginSegment
                   /\ UNCHANGED <<runStats, combo>>
    /\ UNCHANGED <<otherVars, envVars, fetchVars, runNo, concelho_cache, exc, sessVars, dbVars>>

\* run(): all combinations processed: status = "success", commit, return stats
FinishRun ==
    /\ pc = "location"
    /\ combo > config.ncombos
    /\ LET closed == CloseScrapeRun(scrape_run, "success", NoError, runStats)
       IN  /\ scrape_run' = closed
           /\ IF CommitOk(SessState)
              THEN /\ dbRuns' = [dbRuns EXCEPT ![runNo] = closed]
                   /\ dbListings' = listings
                   /\ dbHistory' = history
                   /\ outcomes' = Append(outcomes,
                          [kind |-> "returned", error |-> NoError,
                           escaped |-> NoError, stats |-> runStats])
                   /\ pc' = "idle"
                   /\ UNCHANGED <<exc, listings, history, sessionActive>>
              ELSE /\ pc' = "except"
                   /\ exc' = "IntegrityError"
                   /\ listings' = dbListings
                   /\ history' = dbHistory
                   /\ sessionActive' = FALSE
                   /\ UNCHANGED dbVars
    /\ UNCHANGED <<otherVars, envVars, fetchVars, runNo, combo, segment, segIdx, page, lowest_price_seen,
                   total_pages, segStats, locStats, runStats, concelho_cache, obsVars>>

\* run(): "except Exception as e": status = "failed", error_message = str(e),
\* session.commit(), raise; "finally: session.close()".  The commit is issued on
\* the session the exception came from: on an inactive transaction it raises
\* PendingRollbackError and nothing is written.
HandleException ==
    /\ pc = "except"
    /\ LET failed == CloseScrapeRun(scrape_run, "failed", exc, runStats)
       IN  /\ scrape_run' = failed
           /\ IF CommitOk(SessState)
              THEN /\ dbRuns' = [dbRuns EXCEPT ![runNo] = failed]
                   /\ dbListings' = listings
                   /\ dbHistory' = history
                   /\ outcomes' = Append(outcomes,
                          [kind |-> "raised", error |-> exc, escaped |-> exc,
                           stats |-> ZeroStats])
              ELSE /\ outcomes' = Append(outcomes,
                          [kind |-> "raised",
                           error |-> IF sessionActive THEN "IntegrityError"
                                     ELSE "PendingRollbackError",
                           escaped |-> exc, stats |-> ZeroStats])
                   /\ UNCHANGED <<dbRuns, dbListings, dbHistory>>
    /\ pc' = "idle"
    /\ UNCHANGED <<otherVars, envVars, fetchVars, runNo, combo, segment, segIdx, page, lowest_price_seen,
                   total_pages, segStats, locStats, runStats, concelho_cache, exc,
                   listings, history, sessionActive, obsVars>>

\* the detail strings a card may show
DetailLists == {<<>>, <<"T2", "90 m2 area bruta">>, <<"t0", "0 m2">>,
                <<"Garagem", "3 quartos">>}

\* between two invocations the site may reprice one listing (keeping its
\* order) or, on a site whose cards change their details, show other detail
\* strings for one listing or, on a site that takes listings down, stop
\* showing one listing
PriceVals == {None} \cup (0..MaxPrice)
Descending(prices) ==
    \A i \in DOMAIN prices : i + 1 \in DOMAIN prices => prices[i] >= prices[i + 1]
SiteChange ==
    /\ pc = "idle"
    /\ 0 < runNo /\ runNo < invocations
    /\ changes < runNo
    /\ IF site.drift = "price"
       THEN \E i \in DOMAIN site.listings, price \in PriceVals :
               /\ price # site.listings[i].price
               /\ LET repriced == [site.listings EXCEPT ![i].price = price]
                  IN  /\ Descending([k \in DOMAIN repriced |-> repriced[k].price])
                      /\ site' = [site EXCEPT !.listings = repriced]
       ELSE IF site.drift = "details"
       THEN \E i \in DOMAIN site.listings, details \in DetailLists :
               /\ details # site.listings[i].details_raw
               /\ site' = [site EXCEPT !.listings[i].details_raw = details]
       ELSE \E i \in DOMAIN site.listings :
               site' = [site EXCEPT !.listings =
                           SelectSeq(site.listings,
                                     LAMBDA l : l.idealista_id # site.listings[i].idealista_id)]
    /\ changes' = changes + 1
    /\ UNCHANGED <<otherVars, config, concelhoExists, failPlan, parsePlan, invocations,
                   fetchVars,
                   ctlVars, sessVars, dbVars, obsVars>>

Next ==
    \/ Run
    \/ ScrapeLocation
    \/ SyncPage
    \/ AsyncFirstPage
    \/ AsyncBatch
    \/ EndSegment
    \/ FinishRun
    \/ HandleException
    \/ SiteChange

\* --------------------------------------------------------------------------
\* retry_with_backoff and async_retry_with_backoff (utils/time_utils.py,
\* utils/async_time_utils.py): the two bodies differ only in await
\* --------------------------------------------------------------------------
\* the exception types func may raise
ExcTypes == {"ConnectionError", "ValueError"}

RetryArgs(function, max_retries, base_delay, max_delay, exponential_base, retryable) ==
    [function |-> function, max_retries |-> max_retries, base_delay |-> base_delay,
     max_delay |-> max_delay, exponential_base |-> exponential_base,
     retryable_exceptions |-> retryable]

\* the caller has nothing yet
NoOutcome == [kind |-> "pending", value |-> 0, exception |-> <<>>]

\* exponential_base**attempt
RECURSIVE Pow(_, _)
Pow(b, n) == IF n = 0 THEN 1 ELSE b * Pow(b, n - 1)

\* mutant of Delay: the delay is not capped
DelayUncapped(args, k) == args.base_delay * Pow(args.exponential_base, k)

\* "delay = min(base_delay * (exponential_base**attempt), max_delay)"
Delay(args, k) ==
    Min(args.base_delay * Pow(args.exponential_base, k), args.max_delay)

\* mutant of LastAttempt: the loop gives up one attempt early
LastAttemptEarly(args, k) == k + 1 >= args.max_retries

\* "if attempt == max_retries"
LastAttempt(args, k) == k = args.max_retries

\* func's 1st, 2nd, ... invocation returns its ordinal or raises an exception
\* of the planned type
FuncOutcome(k) == funcPlan[k]

\* one pass of "for attempt in range(max_retries + 1)" up to the sleep:
\* "return func()", or an exception outside retryable_exceptions propagates,
\* or "if attempt == max_retries: raise", or the delay is computed
RetryAttempt ==
    /\ retryPc = "try"
    /\ calls' = Append(calls, FuncOutcome(Len(calls) + 1))
    /\ IF FuncOutcome(Len(calls) + 1) = "ok"
       THEN /\ retryPc' = "done"
            /\ retryOutcome' = [kind |-> "returned", value |-> Len(calls) + 1,
                                exception |-> <<>>]
       ELSE IF \/ FuncOutcome(Len(calls) + 1) \notin retryArgs.retryable_exceptions
               \/ LastAttempt(retryArgs, attempt)
       THEN /\ retryPc' = "done"
            /\ retryOutcome' = [kind |-> "raised", value |-> 0,
                                exception |-> <<FuncOutcome(Len(calls) + 1),
                                                Len(calls) + 1>>]
       ELSE /\ retryPc' = "sleep"
            /\ UNCHANGED retryOutcome
    /\ UNCHANGED <<retryArgs, funcPlan, attempt, sleeps, crawlVars, preVars, detVars, cliVars>>

\* "sleep_with_jitter(delay)" and the next pass of the loop
RetrySleep ==
    /\ retryPc = "sleep"
    /\ sleeps' = Append(sleeps, Delay(retryArgs, attempt))
    /\ attempt' = attempt + 1
    /\ retryPc' = "try"
    /\ UNCHANGED <<retryArgs, funcPlan, calls, retryOutcome, crawlVars, preVars, detVars, cliVars>>

\* --------------------------------------------------------------------------
\* The pre-scrape drivers (scraping/pre_scraper.py, scraping/async_pre_scraper.py)
\* --------------------------------------------------------------------------
\* the homepage's URL among the fetch URLs; district d's concelhos page is d
HomeUrl == 0

ZeroPreStats == [districts_created |-> 0, districts_updated |-> 0,
                 concelhos_created |-> 0, concelhos_updated |-> 0]

\* what parse_concelhos_page gives for district d's concelhos page
ConcelhosPage(d) == <<2 * d - 1, 2 * d>>

\* whether get_html raises RuntimeError for this URL in the current run
PreFetchFails(url) == <<preRunNo, url>> \in preFail

\* session.query(...).filter_by(slug=slug).first(): the row's index, 0 for none
FindBySlug(rows, slug) ==
    IF \E i \in DOMAIN rows : rows[i].slug = slug
    THEN CHOOSE i \in DOMAIN rows :
            /\ rows[i].slug = slug
            /\ \A j \in DOMAIN rows : rows[j].slug = slug => i <= j
    ELSE 0

\* _upsert_district: the existing row is kept (its name and last_scraped
\* updated), else a row is added
UpsertDistrict(rows, slug, idx) ==
    IF idx # 0 THEN rows ELSE Append(rows, [id |-> Len(rows) + 1, slug |-> slug])

\* _upsert_concelho: the existing row gets the district's id, else a row is added
UpsertConcelho(rows, slug, idx, district_id) ==
    IF idx # 0 THEN [rows EXCEPT ![idx].district_id = district_id]
    ELSE Append(rows, [id |-> Len(rows) + 1, slug |-> slug,
                       district_id |-> district_id])

\* "if created: stats['concelhos_created'] += 1 else: stats['concelhos_updated'] += 1"
CountConcelho(stats, created) ==
    [stats EXCEPT !.concelhos_created = IF created THEN @ + 1 ELSE @,
                  !.concelhos_updated = IF created THEN @ ELSE @ + 1]

\* one pass of "for concelho_link in concelhos": s = [rows, stats, log]
UpsertConcelhoStep(s, slug, idx, district_id) ==
    [rows |-> UpsertConcelho(s.rows, slug, idx, district_id),
     stats |-> CountConcelho(s.stats, idx = 0),
     log |-> Append(s.log, [table |-> "concelho", slug |-> slug,
                            existed |-> idx # 0, rows |-> Len(s.rows)])]

RECURSIVE UpsertConcelhos(_, _, _)
UpsertConcelhos(s, concelhos, district_id) ==
    IF concelhos = <<>> THEN s
    ELSE UpsertConcelhos(UpsertConcelhoStep(s, Head(concelhos),
                                            FindBySlug(s.rows, Head(concelhos)),
                                            district_id),
                         Tail(concelhos), district_id)

\* PreScraper._process_district:
\*   stats["districts_created" if stats else "districts_updated"] = 1
\* (stats is the dictionary of four counters, never empty);
\* AsyncPreScraper._process_district: "if created: ... else: ..."
CountDistrict(mode, stats, created) ==
    IF mode = "sync"
    THEN IF DOMAIN stats # {}
         THEN [stats EXCEPT !.districts_created = 1]
         ELSE [stats EXCEPT !.districts_updated = 1]
    ELSE IF created
         THEN [stats EXCEPT !.districts_created = 1]
         ELSE [stats EXCEPT !.districts_updated = 1]

\* "for key in stats: stats[key] += district_stats.get(key, 0)"
AddPreStats(a, b) ==
    [districts_created |-> a.districts_created + b.districts_created,
     districts_updated |-> a.districts_updated + b.districts_updated,
     concelhos_created |-> a.concelhos_created + b.concelhos_created,
     concelhos_updated |-> a.concelhos_updated + b.concelhos_updated]

\* mutant of NeedsConcelhos: every district's concelhos page is fetched
NeedsConcelhosAlways(info) == TRUE

\* "if not concelhos" / "[d for d in districts_info if not d.concelhos]"
NeedsConcelhos(info) == info.concelhos = <<>>

\* _fetch_concelhos_for_district: the parsed concelhos, [] when get_html failed
FetchConcelhos(d) == IF PreFetchFails(d) THEN <<>> ELSE ConcelhosPage(d)

\* the URLs of the follow-up fetches for a list of districts
RECURSIVE FollowUpUrls(_)
FollowUpUrls(infos) ==
    IF infos = <<>> THEN <<>>
    ELSE IF NeedsConcelhos(Head(infos))
         THEN <<Head(infos).slug>> \o FollowUpUrls(Tail(infos))
         ELSE FollowUpUrls(Tail(infos))

\* run(): session = self.session_factory(); scrape_run = self._create_scrape_run(session)
PreRun ==
    /\ prePc = "idle"
    /\ preRunNo < MaxRuns
    /\ preRunNo' = preRunNo + 1
    /\ dbPreRuns' = Append(dbPreRuns, [status |-> "running", ended_at |-> FALSE])
    /\ districts_info' = <<>> /\ preIdx' = 1 /\ preStats' = ZeroPreStats
    /\ fetchLog' = <<>> /\ upsertsLog' = <<>>
    /\ prePc' = "homepage"
    /\ UNCHANGED <<preMode, homepage, preFail, dbDistricts, dbConcelhos, preOutcomes,
                   crawlVars, retryVars, detVars,
                   cliVars>>

\* homepage_html = self.client.get_html(IDEALISTA_BASE_URL, ...);
\* districts_info = parse_homepage_districts(homepage_html); a RuntimeError
\* goes to "except Exception", which marks the run failed and re-raises
PreFetchHomepage ==
    /\ prePc = "homepage"
    /\ fetchLog' = Append(fetchLog, HomeUrl)
    /\ IF PreFetchFails(HomeUrl)
       THEN /\ dbPreRuns' = [dbPreRuns EXCEPT ![preRunNo] =
                                [status |-> "failed", ended_at |-> TRUE]]
            /\ preOutcomes' = Append(preOutcomes,
                                     [kind |-> "raised", stats |-> ZeroPreStats,
                                      fetches |-> Append(fetchLog, HomeUrl),
                                      parsed |-> <<>>, upserts |-> <<>>])
            /\ prePc' = "idle"
            /\ UNCHANGED districts_info
       ELSE /\ districts_info' = homepage
            /\ prePc' = IF preMode = "async" THEN "fetch_all" ELSE "process"
            /\ UNCHANGED <<dbPreRuns, preOutcomes>>
    /\ UNCHANGED <<preMode, homepage, preFail, preRunNo, preIdx, preStats, upsertsLog,
                   dbDistricts, dbConcelhos, crawlVars, retryVars, detVars,
                   cliVars>>

\* AsyncPreScraper.run: concelho_results = await self._fetch_all_concelhos(...)
\* for the districts without concelhos, then "if district.slug in
\* concelho_map: district.concelhos = concelho_map[district.slug]"
PreFetchAllConcelhos ==
    /\ prePc = "fetch_all"
    /\ fetchLog' = fetchLog \o FollowUpUrls(districts_info)
    /\ districts_info' =
          [i \in DOMAIN districts_info |->
              IF NeedsConcelhos(districts_info[i])
              THEN [districts_info[i] EXCEPT
                       !.concelhos = FetchConcelhos(districts_info[i].slug)]
              ELSE districts_info[i]]
    /\ prePc' = "process"
    /\ UNCHANGED <<preMode, homepage, preFail, preRunNo, preIdx, preStats, upsertsLog,
                   dbDistricts, dbConcelhos, dbPreRuns, preOutcomes, crawlVars,
                   retryVars, detVars, cliVars>>

\* _process_district after the district's upsert: idx the District row found
\* (0 for none), rows the District rows after the upsert, concelhos the
\* concelho links to upsert; then session.commit()
ProcessDistrictWith(info, idx, rows, concelhos, fetched) ==
    /\ dbDistricts' = rows
    /\ fetchLog' = fetchLog \o fetched
    /\ LET s == UpsertConcelhos(
                   [rows |-> dbConcelhos,
                    stats |-> CountDistrict(preMode, ZeroPreStats, idx = 0),
                    log |-> Append(upsertsLog,
                                   [table |-> "district", slug |-> info.slug,
                                    existed |-> idx # 0, rows |-> Len(dbDistricts)])],
                   concelhos,
                   rows[IF idx = 0 THEN Len(rows) ELSE idx].id)
       IN  /\ dbConcelhos' = s.rows
           /\ preStats' = AddPreStats(preStats, s.stats)
           /\ upsertsLog' = s.log

\* one pass of "for district_info in districts_info": _process_district; the
\* sequential driver fetches the concelhos page of a district without concelhos
PreProcessDistrict ==
    /\ prePc = "process"
    /\ preIdx <= Len(districts_info)
    /\ IF preMode = "sync" /\ NeedsConcelhos(districts_info[preIdx])
       THEN ProcessDistrictWith(
                districts_info[preIdx],
                FindBySlug(dbDistricts, districts_info[preIdx].slug),
                UpsertDistrict(dbDistricts, districts_info[preIdx].slug,
                               FindBySlug(dbDistricts, districts_info[preIdx].slug)),
                FetchConcelhos(districts_info[preIdx].slug),
                <<districts_info[preIdx].slug>>)
       ELSE ProcessDistrictWith(
                districts_info[preIdx],
                FindBySlug(dbDistricts, districts_info[preIdx].slug),
                UpsertDistrict(dbDistricts, districts_info[preIdx].slug,
                               FindBySlug(dbDistricts, districts_info[preIdx].slug)),
                districts_info[preIdx].concelhos,
                <<>>)
    /\ preIdx' = preIdx + 1
    /\ UNCHANGED <<preMode, homepage, preFail, prePc, preRunNo, districts_info,
                   dbPreRuns, preOutcomes, crawlVars, retryVars, detVars,
                   cliVars>>

\* scrape_run.status = "success"; session.commit(); return stats
PreFinish ==
    /\ prePc = "process"
    /\ preIdx > Len(districts_info)
    /\ dbPreRuns' = [dbPreRuns EXCEPT ![preRunNo] =
                        [status |-> "success", ended_at |-> TRUE]]
    /\ preOutcomes' = Append(preOutcomes,
                             [kind |-> "returned", stats |-> preStats,
                              fetches |-> fetchLog, parsed |-> homepage,
                              upserts |-> upsertsLog])
    /\ prePc' = "idle"
    /\ UNCHANGED <<preMode, homepage, preFail, preRunNo, districts_info, preIdx,
                   preStats, fetchLog, upsertsLog, dbDistricts, dbConcelhos,
                   crawlVars, retryVars, detVars,
                   cliVars>>

\* --------------------------------------------------------------------------
\* The details driver (scraping/details_scraper.py)
\* --------------------------------------------------------------------------
ZeroDetStats ==
    [listings_processed |-> 0, listings_enriched |-> 0, listings_failed |-> 0]

\* a Listing row as the listings drivers create it: of the detail fields only
\* the description may be set (from the card); nullable booleans are "True",
\* "False" or NoneStr; last_seen is the row's rank among the rows of the store
\* by timestamp, the highest rank being the latest, and first_seen, which is
\* no later than any last_seen, is below every rank
CardListing(id, active, description, seen) ==
    [idealista_id |-> id, is_active |-> active, description |-> description,
     energy_class |-> NoneStr, has_elevator |-> NoneStr, has_pool |-> NoneStr,
     condition |-> NoneStr, year_built |-> None, first_seen |-> 0,
     last_seen |-> seen]

\* a ParsedListingDetail
Detail(description, energy_class, features_raw, equipment, characteristics) ==
    [description |-> description, energy_class |-> energy_class,
     features_raw |-> features_raw, equipment |-> equipment,
     characteristics |-> characteristics]

\* the keywords of the driver's vocabulary that are substrings of s.lower()
Keywords(s) ==
    CASE s = "com elevador" -> {"elevador"}
      [] s = "bom estado" -> {"estado"}
      [] s = "Piscina" -> {"piscina"}
      [] s = "Elevador" -> {"elevador"}
      [] s = "Estado" -> {"estado"}
      [] s = "Ano de construcao" -> {"ano", "construcao"}
      [] s = "Certificado energetico" -> {"certificado", "energ"}
      [] OTHER -> {}

\* value_lower in ("sim", "yes", "true", "1"), as a nullable boolean
Affirmative(value) ==
    LET value_lower == CASE value = "Sim" -> "sim" [] value = "Nao" -> "nao"
                         [] OTHER -> value
    IN IF value_lower \in {"sim", "yes", "true", "1"} THEN "True" ELSE "False"

\* int(value.strip()) under contextlib.suppress(ValueError): the year, or the
\* current value where int() raises
YearBuilt(current, value) ==
    CASE value = "1990" -> 1990
      [] value = "2010" -> 2010
      [] OTHER -> current

\* _normalize_energy_class: the first letter A-G of the text, upper-cased
NormalizeEnergyClass(energy_class) ==
    CASE energy_class = "b" -> "B"
      [] energy_class = "c" -> "C"
      [] OTHER -> energy_class

\* _parse_features: one pass over features_raw
RECURSIVE ParseFeatures(_, _)
ParseFeatures(listing, features_raw) ==
    IF features_raw = <<>> THEN listing
    ELSE LET feature == Head(features_raw)
             kw == Keywords(feature)
         IN ParseFeatures(
                [listing EXCEPT
                    !.has_elevator = IF "elevador" \in kw THEN "True" ELSE @,
                    !.condition = IF "estado" \in kw /\ @ = NoneStr
                                  THEN feature ELSE @],
                Tail(features_raw))

\* _parse_equipment: one pass over the equipment list
RECURSIVE ParseEquipment(_, _)
ParseEquipment(listing, equipment) ==
    IF equipment = <<>> THEN listing
    ELSE ParseEquipment(
             [listing EXCEPT
                 !.has_pool = IF "piscina" \in Keywords(Head(equipment))
                              THEN "True" ELSE @],
             Tail(equipment))

\* _parse_characteristics: one pass over the items <<key, value>> of the dict,
\* in insertion order
RECURSIVE ParseCharacteristics(_, _)
ParseCharacteristics(listing, characteristics) ==
    IF characteristics = <<>> THEN listing
    ELSE LET kw == Keywords(Head(characteristics)[1])
             value == Head(characteristics)[2]
         IN ParseCharacteristics(
                [listing EXCEPT
                    !.year_built = IF {"ano", "construcao"} \subseteq kw
                                   THEN YearBuilt(@, value) ELSE @,
                    !.condition = IF "estado" \in kw /\ @ = NoneStr THEN value ELSE @,
                    !.has_elevator = IF "elevador" \in kw
                                     THEN Affirmative(value) ELSE @,
                    !.has_pool = IF "piscina" \in kw
                                 THEN Affirmative(value) ELSE @,
                    !.energy_class = IF {"certificado", "energ"} \subseteq kw
                                        /\ @ = NoneStr
                                     THEN NormalizeEnergyClass(value) ELSE @],
                Tail(characteristics))

\* "listing.last_seen = datetime.now(UTC)" on row i: the row becomes the latest
\* one, the rows that were later than it move down one rank
Touch(rows, i) ==
    [j \in DOMAIN rows |->
        IF j = i THEN rows[j]
        ELSE IF rows[j].last_seen > rows[i].last_seen
        THEN [rows[j] EXCEPT !.last_seen = @ - 1]
        ELSE rows[j]]

\* _update_listing_from_detail
UpdateListingFromDetail(listing, detail, now) ==
    [ParseCharacteristics(
         ParseEquipment(
             ParseFeatures(
                 [listing EXCEPT
                     !.description = IF detail.description \in FalsyStr
                                     THEN @ ELSE detail.description,
                     !.energy_class = IF detail.energy_class \in FalsyStr
                                      THEN @
                                      ELSE NormalizeEnergyClass(detail.energy_class)],
                 detail.features_raw),
             detail.equipment),
         detail.characteristics)
     EXCEPT !.last_seen = now]

\* mutant of NeedsDetails: inactive listings are selected too
NeedsDetailsAnyStatus(listing) ==
    listing.description = NoneStr \/ listing.energy_class = NoneStr

\* the filter of _get_listings_needing_details
NeedsDetails(listing) ==
    /\ listing.is_active
    /\ (listing.description = NoneStr \/ listing.energy_class = NoneStr)

\* order_by(Listing.last_seen.desc()) over the row indices idxs
RECURSIVE ByLastSeenDesc(_, _)
ByLastSeenDesc(rows, idxs) ==
    IF idxs = {} THEN <<>>
    ELSE LET i == CHOOSE i \in idxs :
                      \A j \in idxs : rows[j].last_seen <= rows[i].last_seen
         IN <<i>> \o ByLastSeenDesc(rows, idxs \ {i})

\* _get_listings_needing_details: the indices of the selected rows
GetListingsNeedingDetails(rows, limit) ==
    LET ordered == ByLastSeenDesc(rows, {i \in DOMAIN rows : NeedsDetails(rows[i])})
    IN IF limit = None THEN ordered
       ELSE SubSeq(ordered, 1, Min(limit, Len(ordered)))

\* what the detail pages of the site can parse to: a page with neither
\* description nor energy class, a complete page whose characteristics deny
\* the amenities, and a page with its energy class among the characteristics
DetailPages ==
    {Detail(NoneStr, NoneStr, <<"com elevador", "bom estado">>, <<"Piscina">>,
            <<<<"Ano de construcao", "1990">>>>),
     Detail("text", "b", <<>>, <<>>,
            <<<<"Elevador", "Nao">>, <<"Piscina", "Nao">>, <<"Estado", "Usado">>,
              <<"Ano de construcao", "2010">>>>),
     Detail("text", NoneStr, <<"com elevador">>, <<>>,
            <<<<"Elevador", "Sim">>, <<"Certificado energetico", "c">>,
              <<"Ano de construcao", "anos 90">>>>)}

\* run(), up to the loop: the ScrapeRun row, the selection
DetRun ==
    /\ detPc = "idle"
    /\ detRunNo < MaxRuns
    /\ detRunNo' = detRunNo + 1
    /\ detRuns' = Append(detRuns, [run_type |-> "scrape-details", status |-> "running"])
    /\ detFetched' = <<>>
    /\ detQueue' = GetListingsNeedingDetails(detListings, max_listings)
    /\ detBefore' = detListings
    /\ detStats' = ZeroDetStats
    /\ detPc' = "loop"
    /\ UNCHANGED <<max_listings, detListings, crawlVars, retryVars, preVars, cliVars>>

\* the counters of one processed listing
CountDetail(stats, success) ==
    [stats EXCEPT !.listings_processed = @ + 1,
                  !.listings_enriched = IF success THEN @ + 1 ELSE @,
                  !.listings_failed = IF success THEN @ ELSE @ + 1]

\* one iteration of the loop of run(): _scrape_listing_detail and the commit.
\* The fetch gives a page, raises RuntimeError (caught: the listing failed), or
\* raises another exception (the handler of run(): the run failed)
DetListing ==
    /\ detPc = "loop"
    /\ detQueue # <<>>
    /\ detFetched' = Append(detFetched, Head(detQueue))
    /\ \/ \E detail \in DetailPages :
            /\ detListings' = [Touch(detListings, Head(detQueue))
                                 EXCEPT ![Head(detQueue)] =
                                     UpdateListingFromDetail(@, detail, Len(detListings))]
            /\ detStats' = CountDetail(detStats, TRUE)
            /\ detQueue' = Tail(detQueue)
            /\ UNCHANGED <<detPc, detRuns>>
       \/ /\ detStats' = CountDetail(detStats, FALSE)
          /\ detQueue' = Tail(detQueue)
          /\ UNCHANGED <<detListings, detPc, detRuns>>
       \/ /\ detRuns' = [detRuns EXCEPT ![Len(detRuns)].status = "failed"]
          /\ detQueue' = <<>>
          /\ detPc' = "idle"
          /\ UNCHANGED <<detListings, detStats>>
    /\ UNCHANGED <<max_listings, detRunNo, detBefore, crawlVars, retryVars, preVars,
                   cliVars>>

\* run(), after the loop
DetFinish ==
    /\ detPc = "loop"
    /\ detQueue = <<>>
    /\ detRuns' = [detRuns EXCEPT ![Len(detRuns)].status = "success"]
    /\ detPc' = "idle"
    /\ UNCHANGED <<max_listings, detListings, detRunNo, detQueue, detBefore,
                   detFetched, detStats, crawlVars, retryVars, preVars, cliVars>>

\* --------------------------------------------------------------------------
\* The commands prescrape, scrape and scrape-details (__main__.py)
\* --------------------------------------------------------------------------
Commands == {"prescrape", "scrape", "scrape-details"}

\* one command line: locations is whether the loaded configuration names a
\* location, config is "none" (no --config), "file" or "missing" (a path that
\* does not exist)
CliArgs(command, dry_run, use_async, locations, config_path, track_cost) ==
    [command |-> command, dry_run |-> dry_run, use_async |-> use_async,
     locations |-> locations, config |-> config_path, track_cost |-> track_cost]

\* ConfigOption is declared with exists=True: the path is checked before the
\* command function is entered
OptionsValid(args) == args.config # "missing"

\* scrape: if not run_config.locations: raise typer.Exit(code=1)
NoLocations(args) == args.command = "scrape" /\ ~args.locations

\* mutant of DryRun: scrape-details ignores the flag
DryRunButDetails(args) == args.dry_run /\ args.command # "scrape-details"

\* if dry_run: ... return
DryRun(args) == args.dry_run

\* the command function up to the dry-run branch
CliInvoke ==
    /\ cliPc = "start"
    /\ IF ~OptionsValid(cliArgs)
       THEN /\ exit_code' = 2
            /\ cliPc' = "exit"
            /\ UNCHANGED effects
       ELSE IF NoLocations(cliArgs)
       THEN /\ effects' = effects \o <<"setup_logging", "load_config">>
            /\ exit_code' = 1
            /\ cliPc' = "exit"
       ELSE IF DryRun(cliArgs)
       THEN /\ effects' = effects \o <<"setup_logging", "load_config", "log_dry_run">>
            /\ exit_code' = 0
            /\ cliPc' = "exit"
       ELSE /\ effects' = effects \o <<"setup_logging", "load_config">>
            /\ cliPc' = "init_db"
            /\ UNCHANGED exit_code
    /\ UNCHANGED <<cliArgs, crawlVars, retryVars, preVars, detVars>>

\* init_db and get_session_factory
CliInitDb ==
    /\ cliPc = "init_db"
    /\ effects' = effects \o <<"init_db", "get_session_factory">>
    /\ cliPc' = "driver"
    /\ UNCHANGED <<cliArgs, exit_code, crawlVars, retryVars, preVars, detVars>>

\* the try block: the client, the driver's run() (under the cost tracker with
\* --track-cost), which returns its stats or raises RuntimeError
CliRunDriver ==
    /\ cliPc = "driver"
    /\ \E outcome \in {"stats", "RuntimeError"} :
         /\ effects' = effects
                \o <<IF cliArgs.use_async THEN "create_async_client"
                     ELSE "create_client">>
                \o (IF cliArgs.track_cost THEN <<"CostTracker">> ELSE <<>>)
                \o <<"run">>
         /\ exit_code' = IF outcome = "stats" THEN 0 ELSE 1
    /\ cliPc' = "exit"
    /\ UNCHANGED <<cliArgs, crawlVars, retryVars, preVars, detVars>>

\* --------------------------------------------------------------------------
\* Initial states: the configurations and sites explored
\* --------------------------------------------------------------------------
Modes == {"sync", "async"}

Config(mode, max_pages, min_price, max_price, concurrency, ncombos) ==
    [mode |-> mode, max_pages |-> max_pages, min_price |-> min_price,
     max_price |-> max_price, concurrency |-> concurrency, ncombos |-> ncombos]

SiteWith(prices, pageSize) ==
    [listings |-> [i \in DOMAIN prices |->
                      [idealista_id |-> i, price |-> prices[i], details_raw |-> <<>>]],
     pageSize |-> pageSize,
     drift |-> "price"]

\* a site of one listing whose card shows the given detail strings, and
\* shows others on later visits
DetailedSite(details) ==
    [listings |-> <<[idealista_id |-> 1, price |-> MaxPrice, details_raw |-> details]>>,
     pageSize |-> 1,
     drift |-> "details"]

PriceLists(n) == {f \in [1..n -> PriceVals] : Descending(f)}

SmallSites ==
    {SiteWith(f, ps) : f \in UNION {PriceLists(n) : n \in 0..MaxListings},
                       ps \in 1..MaxPageSize}

\* everything but the configuration and the environment
InitDriver ==
    /\ pc = "idle" /\ runNo = 0 /\ combo = 0
    /\ segment = [max_price |-> None, min_price |-> None]
    /\ segIdx = 0 /\ page = 0 /\ lowest_price_seen = None /\ total_pages = 0
    /\ segStats = ZeroSegStats /\ locStats = ZeroStats /\ runStats = ZeroStats
    /\ concelho_cache = <<>> /\ exc = NoError
    /\ listings = <<>> /\ history = <<>> /\ sessionActive = TRUE
    /\ scrape_run = NewScrapeRun
    /\ dbListings = <<>> /\ dbHistory = <<>> /\ dbRuns = <<>> /\ outcomes = <<>>
    /\ upsertLog = <<>> /\ segPages = {} /\ segCards = <<>> /\ segFetchFailed = {}
    /\ segStartRows = 0
    /\ segLog = <<>> /\ changes = 0
    /\ tasks = <<>> /\ inflight = {} /\ completed = <<>>

\* the driver configurations explored over small sites
SmallConfigs(max_pages, ncombos) ==
    {Config("sync", max_pages, None, None, 1, ncombos)}
        \cup {Config("async", max_pages, None, None, c, ncombos) :
                c \in 1..MaxConcurrency}

\* sites around the page limit: one page less than, exactly, and one page
\* more than MAX_PAGES_LIMIT pages of one card, the first k listings at a
\* higher price than the rest
SegSizes == {MAX_PAGES_LIMIT + d : d \in {-1, 0, 1}}

SegPrices(n) ==
    {[i \in 1..n |-> lo] : lo \in 0..MaxPrice}
        \cup {[i \in 1..n |-> IF i <= k THEN hl[1] ELSE hl[2]] :
                k \in {1, n - 1},
                hl \in {q \in (0..MaxPrice) \X (0..MaxPrice) : q[1] > q[2]}}

SegSites == {SiteWith(f, 1) : f \in UNION {SegPrices(n) : n \in SegSizes}}

\* one fetch that fails after its retries, in the first or the second segment
SegFailPlans == {{<<1, 1, s, p>>} : s \in 1..2, p \in {1, 2, MAX_PAGES_LIMIT}}

\* no retry call in progress
RetryIdle ==
    /\ retryArgs = RetryArgs("retry_with_backoff", 0, 1, 1, 1, ExcTypes)
    /\ funcPlan = <<"ok">>
    /\ retryPc = "idle" /\ attempt = 0 /\ calls = <<>> /\ sleeps = <<>>
    /\ retryOutcome = NoOutcome

\* no pre-scrape run
PreIdle ==
    /\ preMode = "sync" /\ homepage = <<>> /\ preFail = {}
    /\ prePc = "off" /\ preRunNo = 0 /\ districts_info = <<>> /\ preIdx = 0
    /\ preStats = ZeroPreStats /\ fetchLog = <<>> /\ upsertsLog = <<>>
    /\ dbDistricts = <<>> /\ dbConcelhos = <<>> /\ dbPreRuns = <<>>
    /\ preOutcomes = <<>>

\* no details run
DetailsIdle ==
    /\ max_listings = None /\ detListings = <<>> /\ detPc = "off" /\ detRunNo = 0
    /\ detQueue = <<>> /\ detBefore = <<>> /\ detFetched = <<>>
    /\ detStats = ZeroDetStats /\ detRuns = <<>>

\* no command invoked
CliIdle ==
    /\ cliArgs = CliArgs("scrape", FALSE, FALSE, TRUE, "none", FALSE)
    /\ cliPc = "off" /\ effects = <<>> /\ exit_code = None

\* the components that take no step in a behaviour of the listings drivers
OthersIdle == RetryIdle /\ PreIdle /\ DetailsIdle /\ CliIdle

\* no crawl: the listings drivers are never invoked
NoCrawl ==
    /\ InitDriver
    /\ invocations = 0
    /\ config = Config("sync", None, None, None, 1, 1)
    /\ site = SiteWith(<<>>, 1)
    /\ concelhoExists = TRUE
    /\ failPlan = {}
    /\ parsePlan = {}

\* repeated invocations over small sites, with or without the location's
\* concelho in the store
InitSmall ==
    /\ invocations = MaxRuns
    /\ config \in SmallConfigs(None, 1) \cup SmallConfigs(1, 1)
    /\ site \in SmallSites
    /\ concelhoExists \in BOOLEAN
    /\ failPlan = {}
    /\ parsePlan = {}

\* repeated invocations over several locations, one fetch failing
InitFailing ==
    /\ invocations = MaxRuns
    /\ config \in SmallConfigs(None, MaxCombos)
    /\ site = SiteWith([i \in 1..MaxListings |-> MaxPrice], 1)
    /\ concelhoExists = TRUE
    /\ failPlan \in {{<<r, c, 1, p>>} :
                        r \in 1..MaxRuns, c \in 1..MaxCombos, p \in 1..2}
    /\ parsePlan = {}

\* one invocation over several locations, the parser raising on one page
InitParsing ==
    /\ invocations = 1
    /\ config \in SmallConfigs(None, MaxCombos)
    /\ site = SiteWith([i \in 1..MaxListings + 1 |-> MaxPrice], 1)
    /\ concelhoExists = TRUE
    /\ failPlan = {}
    /\ parsePlan \in {{<<1, c, 1, p, k>>} :
                         c \in 1..MaxCombos, p \in 1..MaxListings + 1,
                         k \in ParseErrorKinds}

\* one invocation over one location whose result list is around the page limit
InitSegment ==
    /\ invocations = 1
    /\ site \in SegSites
    /\ concelhoExists = TRUE
    /\ parsePlan = {}
    /\ \/ /\ config \in {Config(m, None, floor, None, DefaultConcurrency, 1) :
                            m \in Modes, floor \in {None} \cup (0..MaxPrice)}
          /\ failPlan = {}
       \/ /\ config \in {Config(m, None, None, None, DefaultConcurrency, 1) :
                            m \in Modes}
          /\ failPlan \in SegFailPlans
       \/ \* a page cap just below and just above the page limit
          /\ config \in {Config(m, MAX_PAGES_LIMIT + d, None, None, DefaultConcurrency, 1) :
                            m \in Modes, d \in {-1, 1}}
          /\ site \in {SiteWith([i \in 1..n |-> MaxPrice], 1) : n \in SegSizes}
          /\ failPlan = {}

\* one more invocation than MaxRuns over one listing whose detail strings
\* change between the invocations: a creation followed by several updates
InitEnrich ==
    /\ invocations = MaxRuns + 1
    /\ config \in SmallConfigs(None, 1)
    /\ site \in {DetailedSite(d) : d \in DetailLists}
    /\ concelhoExists = TRUE
    /\ failPlan = {}
    /\ parsePlan = {}

\* repeated invocations over a site that takes one listing down between them
InitDelist ==
    /\ invocations = MaxRuns
    /\ config \in SmallConfigs(None, 1)
    /\ site = [SiteWith([i \in 1..MaxListings |-> MaxPrice], 1) EXCEPT !.drift = "delist"]
    /\ concelhoExists = TRUE
    /\ failPlan = {}
    /\ parsePlan = {}

Init ==
    InitDriver /\ OthersIdle /\ (InitSmall \/ InitFailing \/ InitParsing \/ InitSegment
                      \/ InitEnrich \/ InitDelist)

Spec == Init /\ [][Next]_vars

\* one invocation of the concurrent driver over sites of a few pages, one
\* fetch failing or none, with the fetch tasks of a batch interleaved
BatchSites == {SiteWith([i \in 1..n |-> MaxPrice], 1) : n \in 1..MaxListings + 3}

InitBatch ==
    /\ InitDriver
    /\ OthersIdle
    /\ invocations = 1
    /\ concelhoExists = TRUE
    /\ parsePlan = {}
    /\ \/ /\ config \in {Config("async", mp, None, None, c, n) :
                            mp \in {None, MaxListings + 1},
                            c \in 1..MaxConcurrency + 1, n \in {1, MaxCombos}}
          /\ site \in BatchSites
          /\ failPlan \in {{}} \cup {{<<1, 1, 1, p>>} : p \in 1..MaxListings + 3}
       \/ \* a result list longer than the page limit
          /\ config = Config("async", None, None, None, 1, 1)
          /\ site = SiteWith([i \in 1..MAX_PAGES_LIMIT + 1 |-> MaxPrice], 1)
          /\ failPlan = {}

\* one call of either retry function: max_retries from 0, the delays and the
\* base from 1, func failing or succeeding at each invocation
InitRetry ==
    /\ NoCrawl
    /\ PreIdle /\ DetailsIdle /\ CliIdle
    /\ retryArgs \in {RetryArgs(f, n, b, m, e, r) :
                        f \in {"retry_with_backoff", "async_retry_with_backoff"},
                        n \in 0..MaxRetries, b \in 1..MaxDelay, m \in 1..MaxDelay,
                        e \in 1..MaxBase, r \in {{"ConnectionError"}, ExcTypes}}
    /\ funcPlan \in [1..retryArgs.max_retries + 1 -> {"ok"} \cup ExcTypes]
    /\ retryPc = "try" /\ attempt = 0 /\ calls = <<>> /\ sleeps = <<>>
    /\ retryOutcome = NoOutcome

\* the concelhos a district carries on the homepage: none, the first or all
\* of those on its concelhos page
HomeConcelhos(d) == {<<>>, <<2 * d - 1>>, ConcelhosPage(d)}

\* the homepages: the districts shown, in slug order, each with its concelhos
RECURSIVE Homepages(_)
Homepages(d) ==
    IF d > MaxDistricts THEN {<<>>}
    ELSE Homepages(d + 1)
            \cup {<<[slug |-> d, concelhos |-> c]>> \o h :
                     c \in HomeConcelhos(d), h \in Homepages(d + 1)}

\* repeated pre-scrape runs of either driver over one geography, at most one
\* fetch failing
InitPre ==
    /\ NoCrawl
    /\ RetryIdle /\ DetailsIdle /\ CliIdle
    /\ preMode \in {"sync", "async"}
    /\ homepage \in Homepages(1)
    /\ preFail \in {{}} \cup {{<<r, u>>} : r \in 1..MaxRuns, u \in 0..MaxDistricts}
    /\ prePc = "idle" /\ preRunNo = 0 /\ districts_info = <<>> /\ preIdx = 0
    /\ preStats = ZeroPreStats /\ fetchLog = <<>> /\ upsertsLog = <<>>
    /\ dbDistricts = <<>> /\ dbConcelhos = <<>> /\ dbPreRuns = <<>>
    /\ preOutcomes = <<>>

NextPre ==
    \/ PreRun
    \/ PreFetchHomepage
    \/ PreFetchAllConcelhos
    \/ PreProcessDistrict
    \/ PreFinish

SpecPre == InitPre /\ [][NextPre]_vars

\* the stores of the details driver: n rows the listings drivers created, seen
\* in the order of their ids, active or not, with or without a description
RECURSIVE StoredListings(_)
StoredListings(n) ==
    IF n = 0 THEN {<<>>}
    ELSE {Append(rows, CardListing(n, active, description, n)) :
            rows \in StoredListings(n - 1),
            active \in BOOLEAN, description \in {NoneStr, "text"}}

InitDetails ==
    /\ NoCrawl
    /\ RetryIdle /\ PreIdle /\ CliIdle
    /\ max_listings \in {None} \cup 0..MaxListings
    /\ \E n \in 0..MaxListings : detListings \in StoredListings(n)
    /\ detPc = "idle" /\ detRunNo = 0 /\ detQueue = <<>> /\ detBefore = <<>>
    /\ detFetched = <<>>
    /\ detStats = ZeroDetStats /\ detRuns = <<>>

NextDetails ==
    \/ DetRun
    \/ DetListing
    \/ DetFinish

SpecDetails == InitDetails /\ [][NextDetails]_vars

InitCli ==
    /\ NoCrawl
    /\ RetryIdle /\ PreIdle /\ DetailsIdle
    /\ cliArgs \in {CliArgs(c, d, a, l, f, t) :
                      c \in Commands, d \in BOOLEAN, a \in BOOLEAN, l \in BOOLEAN,
                      f \in {"none", "file", "missing"}, t \in BOOLEAN}
    /\ cliPc = "start" /\ effects = <<>> /\ exit_code = None

NextCli ==
    \/ CliInvoke
    \/ CliInitDb
    \/ CliRunDriver

SpecCli == InitCli /\ [][NextCli]_vars



NextRetry ==
    \/ RetryAttempt
    \/ RetrySleep

SpecRetry == InitRetry /\ [][NextRetry]_vars

NextBatch ==
    \/ Run
    \/ ScrapeLocation
    \/ AsyncFirstPage
    \/ BatchDispatch
    \/ \E p \in 1..MAX_PAGES_LIMIT : FetchStart(p)
    \/ \E p \in 1..MAX_PAGES_LIMIT : FetchDone(p)
    \/ BatchProcess
    \/ EndSegment
    \/ FinishRun

SpecBatch == InitBatch /\ [][NextBatch]_vars


\* ==========================================================================
\* Claims
\* ==========================================================================

IsDistinct(seq) == Cardinality({seq[i] : i \in DOMAIN seq}) = Len(seq)

\* two consecutive finished segment crawls of the same cards with pairwise
\* distinct ids, the first of them against an empty store
RecrawlPair(i) ==
    /\ i \in DOMAIN segLog /\ i + 1 \in DOMAIN segLog
    /\ segLog[i].rows_before = 0
    /\ segLog[i].cards = segLog[i + 1].cards
    /\ IsDistinct(segLog[i].cards)

C2_SoleUpsertKey ==
    /\ UniqueIds(listings)
    /\ UniqueIds(dbListings)
    /\ \A k \in DOMAIN upsertLog :
          LET e == upsertLog[k]
          IN  /\ e.created <=> ~e.existed
              /\ e.rowsAfter = e.rowsBefore + (IF e.existed THEN 0 ELSE 1)

\* C2 witness: a card whose id was already stored arrived with another price
\* and updated the row, while the store holds two rows of equal price
C2_Witness ==
    /\ \E k \in DOMAIN upsertLog :
          /\ upsertLog[k].existed /\ ~upsertLog[k].created
          /\ upsertLog[k].stored # upsertLog[k].incoming
    /\ \E i, j \in DOMAIN listings : i # j /\ listings[i].price = listings[j].price

\* C3: History on price change only.  An update appends exactly one
\* ListingHistory row when the incoming price differs from the stored one
\* (old = stored price, new = incoming price) and none when they are equal; a
\* creation appends none; after the upsert the row's price is the incoming one.
C3_HistoryOnPriceChangeOnly ==
    \A k \in DOMAIN upsertLog :
        LET e == upsertLog[k]
        IN  /\ e.created => e.nhist = 0
            /\ (~e.created /\ e.stored = e.incoming) => e.nhist = 0
            /\ (~e.created /\ e.stored # e.incoming) =>
                   /\ e.nhist = 1
                   /\ e.hist[1].old = e.stored
                   /\ e.hist[1].new = e.incoming
                   /\ e.hist[1].price = e.stored
            /\ e.priceAfter = e.incoming

\* C3 witness: one page cycle updated a row whose price had changed and
\* committed the history row
C3_Witness ==
    /\ \E k \in DOMAIN upsertLog :
          /\ ~upsertLog[k].created
          /\ upsertLog[k].stored # upsertLog[k].incoming
          /\ upsertLog[k].nhist = 1
    /\ Len(dbHistory) >= 1

\* segLog[i + 1] is the follow-up segment derived from segLog[i]
FollowUp(i) ==
    /\ i \in DOMAIN segLog /\ i + 1 \in DOMAIN segLog
    /\ segLog[i + 1].run = segLog[i].run
    /\ segLog[i + 1].combo = segLog[i].combo
    /\ segLog[i + 1].idx = segLog[i].idx + 1

\* the finished segments of the location segLog[i] belongs to
LocEntries(i) ==
    {j \in DOMAIN segLog : /\ segLog[j].run = segLog[i].run
                           /\ segLog[j].combo = segLog[i].combo}

\* C4: When a segment's crawl reaches the 60-page limit with more results
\* remaining, the follow-up segment has max_price equal to the minimum of
\* lowest_price_on_page over the pages crawled in that segment, and min_price
\* equal to the parent segment's min_price.
C4_FollowUpAtLowestPrice ==
    \A i \in DOMAIN segLog :
        (/\ FollowUp(i)
         /\ MAX_PAGES_LIMIT \in segLog[i].pages
         /\ segLog[i].total > MAX_PAGES_LIMIT) =>
            /\ segLog[i + 1].segment.max_price = segLog[i].lowest
            /\ segLog[i + 1].segment.min_price = segLog[i].segment.min_price

\* C5: In both modes a segment whose query has at most 60 total pages produces
\* no follow-up segment: its next_max_price is null.
C5_NoFollowUpWithinLimit ==
    \A i \in DOMAIN segLog :
        segLog[i].total <= MAX_PAGES_LIMIT => segLog[i].next_max_price = None

\* C6: Price monotonic boundary.  Every follow-up segment the driver crawls has
\* max_price less than or equal to the lowest price observed in the previous
\* segment and, when a floor min_price is set, strictly greater than it; a
\* computed max_price at or below the floor creates no segment.
C6_PriceMonotonicBoundary ==
    \A i \in DOMAIN segLog :
        FollowUp(i) =>
            /\ segLog[i].lowest # None
            /\ segLog[i + 1].segment.max_price <= segLog[i].lowest
            /\ segLog[i].segment.min_price # None =>
                   segLog[i + 1].segment.max_price > segLog[i].segment.min_price
            /\ ~FloorReached(segLog[i].segment, segLog[i].next_max_price)

\* C7: Segmentation termination.  When the total pages of a location's
\* segments drop to 60 or below, the segment loop ends, after no more segments
\* than the location's listings have distinct prices.
C7_SegmentationTerminates ==
    \A i \in DOMAIN segLog :
        (\E j \in LocEntries(i) : segLog[j].total <= MAX_PAGES_LIMIT) =>
            Cardinality(LocEntries(i)) <= (IF segLog[i].strata = 0 THEN 1
                                           ELSE segLog[i].strata)

\* the segment loop of segLog[i]'s location ended with segLog[i], and none of
\* the location's fetches failed
LocationDone(i) ==
    /\ i \in DOMAIN segLog
    /\ \/ segLog[i].next_max_price = None
       \/ FloorReached(segLog[i].segment, segLog[i].next_max_price)
    /\ \A j \in LocEntries(i) : segLog[j].failed = {}

LocationCards(i) ==
    UNION {{segLog[j].cards[k] : k \in DOMAIN segLog[j].cards} : j \in LocEntries(i)}

\* C8: Coverage without gaps.  With every fetch succeeding, results sorted by
\* price descending and no configured page cap, when _scrape_location returns
\* every priced listing matching the location's query within the configured
\* price filters has been upserted, and a listing is crawled in more than one
\* segment only if its price equals a segment boundary price.
C8_CoverageWithoutGaps ==
    \A i \in DOMAIN segLog :
        (LocationDone(i) /\ config.max_pages = None) =>
            /\ segLog[i].matching \subseteq LocationCards(i)
            /\ \A j, k \in LocEntries(i) :
                  j < k =>
                     \A a \in DOMAIN segLog[j].cards :
                        (\E b \in DOMAIN segLog[k].cards :
                              segLog[k].cards[b] = segLog[j].cards[a]) =>
                           \E m \in LocEntries(i) :
                              /\ segLog[m].idx > 1
                              /\ segLog[m].segment.max_price =
                                    site.listings[segLog[j].cards[a]].price

\* the cards processed in the finished segments up to segLog[i] are committed
EarlierCardsCommitted(i) ==
    \A j \in 1..i :
        \A k \in DOMAIN segLog[j].cards : segLog[j].cards[k] \in segLog[i].committed

\* C9: Fail-soft segmentation.  If any page of a segment cannot be fetched, no
\* follow-up segment is derived from that segment, and the listings persisted
\* from its earlier pages and from earlier segments remain committed.
C9_FailSoft ==
    \A i \in DOMAIN segLog :
        segLog[i].failed # {} =>
            /\ segLog[i].next_max_price = None
            /\ EarlierCardsCommitted(i)

\* C9 (amended): in sequential mode a failed page, and in concurrent mode a
\* failed first page, ends the segment without a follow-up; concurrent mode
\* skips a failed later page, processes the remaining pages and may still
\* derive a follow-up.  In either mode the listings already persisted remain
\* committed.
C9_FailSoftByMode ==
    \A i \in DOMAIN segLog :
        segLog[i].failed # {} =>
            /\ (segLog[i].mode = "sync" \/ 1 \in segLog[i].failed) =>
                   /\ segLog[i].next_max_price = None
                   /\ \A p \in segLog[i].failed, q \in segLog[i].pages : q < p
            /\ (segLog[i].mode = "async" /\ 1 \notin segLog[i].failed) =>
                   segLog[i].pages =
                       (1..Min(segLog[i].total, MAX_PAGES_LIMIT)) \ segLog[i].failed
            /\ EarlierCardsCommitted(i)

\* C9 witness: a sequential segment with more than 60 pages of results lost
\* its 60th page, kept the 59 pages before it and derived no follow-up
C9_Witness ==
    \E i \in DOMAIN segLog :
        /\ segLog[i].mode = "sync"
        /\ segLog[i].failed = {MAX_PAGES_LIMIT}
        /\ segLog[i].total > MAX_PAGES_LIMIT
        /\ Len(segLog[i].cards) = MAX_PAGES_LIMIT - 1
        /\ segLog[i].next_max_price = None
        /\ EarlierCardsCommitted(i)

\* C10: Run lifecycle.  Every run() invocation has exactly one RunRecord; it is
\* "running" while the run is in progress, and once run() has returned or
\* raised its persisted status is success or failed, with ended_at set.
C10_RunLifecycle ==
    /\ Len(dbRuns) = runNo
    /\ \A k \in DOMAIN dbRuns :
          IF k = runNo /\ pc # "idle"
          THEN dbRuns[k].status = "running"
          ELSE dbRuns[k].status \in {"success", "failed"} /\ dbRuns[k].ended_at


\* C11: If an exception escapes the crawl loop of run(), the driver sets the
\* RunRecord to status=failed with error_message equal to the exception's
\* text, commits it, and re-raises the same exception to the caller; run()
\* does not return statistics then.
C11_FailedRunRecorded ==
    \A k \in DOMAIN outcomes :
        outcomes[k].escaped # NoError =>
            /\ outcomes[k].kind = "raised"
            /\ outcomes[k].error = outcomes[k].escaped
            /\ dbRuns[k].status = "failed"
            /\ dbRuns[k].error_message = outcomes[k].escaped

\* C12: A persistence error raised while the crawl is writing is fatal to the
\* run and still results in the RunRecord being persisted with status=failed,
\* through the session on which the error occurred.
C12_PersistenceErrorRecorded ==
    \A k \in DOMAIN outcomes :
        outcomes[k].escaped = "IntegrityError" =>
            /\ outcomes[k].kind = "raised"
            /\ dbRuns[k].status = "failed"
            /\ dbRuns[k].ended_at

\* C13: Concurrency bound.  At every instant of a concurrent-mode run the
\* number of page fetches in flight is at most the configured concurrency
\* limit, however many tasks are dispatched together and in whatever order
\* they finish.
C13_ConcurrencyBound ==
    /\ Cardinality(inflight) <= config.concurrency
    /\ inflight \subseteq {tasks[i] : i \in DOMAIN tasks}

\* C13 witness: every permit is taken while another task of the same batch
\* waits, after an earlier task of the batch has already finished
C13_Witness ==
    /\ Cardinality(inflight) = config.concurrency
    /\ Waiting # {}
    /\ completed # <<>>

\* the card ids of the pages in `pages` between p and last, by page number
RECURSIVE CardsInPageOrder(_, _, _, _)
CardsInPageOrder(seg, pages, p, last) ==
    IF p > last THEN <<>>
    ELSE (IF p \in pages THEN CardIds(PageCards(seg, p)) ELSE <<>>)
             \o CardsInPageOrder(seg, pages, p + 1, last)

\* C14: Order independence.  For any completion order of the concurrently
\* fetched pages of a batch, listings are upserted in strictly increasing
\* page-number order (card order within a page): the cards processed, the
\* order the Listing rows were created in and the page count are those of the
\* page order, whatever order the fetches finished in.
C14_OrderIndependence ==
    pc \in {"async_batch", "batch_fetch", "segment_end"} =>
        /\ segCards = CardsInPageOrder(segment, segPages, 1, MAX_PAGES_LIMIT)
        /\ (segStartRows = 0 /\ IsDistinct(segCards)) =>
               [i \in DOMAIN listings |-> listings[i].idealista_id] = segCards
        /\ segStats.pages_scraped = Cardinality(segPages)
        /\ segStats.listings_processed = Len(segCards)

\* C14 witness: a batch whose fetches finished out of page order has been
\* processed
C14_Witness ==
    /\ pc \in {"async_batch", "segment_end"}
    /\ \E i, j \in DOMAIN completed :
          i < j /\ completed[i].page_num > completed[j].page_num
          /\ completed[i].page_num \in segPages /\ completed[j].page_num \in segPages
    /\ segCards = CardsInPageOrder(segment, segPages, 1, MAX_PAGES_LIMIT)

\* what _scrape_segment (sequential) makes of a segment when every fetch
\* succeeds: the pages crawled from p on and the boundary reported
RECURSIVE SequentialSegment(_, _, _, _)
SequentialSegment(seg, p, lowest, pages) ==
    LET md == ParseListingsPage(seg, p).metadata
        seen == TrackLowest(lowest, md.lowest_price_on_page)
    IN  IF md.has_next_page /\ p < MAX_PAGES_LIMIT /\ p + 1 <= MaxPages
        THEN SequentialSegment(seg, p + 1, seen, pages \cup {p})
        ELSE [pages |-> pages \cup {p},
              next_max_price |-> SyncNextMaxPrice(p, md.has_next_page, seen)]

\* C15: Mode equivalence.  Given the same page contents and metadata with
\* every fetch succeeding, the concurrent driver processes the same cards in
\* the same order, reports the same counters and derives the same follow-up
\* boundary for a segment as the sequential driver.
C15_ModeEquivalence ==
    \A i \in DOMAIN segLog :
        (/\ segLog[i].mode = "async"
         /\ segLog[i].run = runNo /\ pc # "idle"
         /\ failPlan = {} /\ parsePlan = {}) =>
            LET seq == SequentialSegment(segLog[i].segment, 1, None, {})
            IN  /\ segLog[i].pages = seq.pages
                /\ segLog[i].cards =
                      CardsInPageOrder(segLog[i].segment, seq.pages, 1, MAX_PAGES_LIMIT)
                /\ segLog[i].pages_scraped = Cardinality(seq.pages)
                /\ segLog[i].next_max_price = seq.next_max_price

\* the run segLog[i] belongs to has ended by returning, recorded as success
RunSucceeded(i) ==
    /\ outcomes[segLog[i].run].kind = "returned"
    /\ dbRuns[segLog[i].run].status = "success"

\* C16: In concurrent mode a failed fetch of a non-first page is skipped: the
\* remaining pages of the same batch and all later batches are still
\* processed and committed, pages_scraped counts only the pages fetched, and
\* neither the batch nor the run is aborted.
C16_FailedPageSkipped ==
    /\ (config.mode = "async" /\ parsePlan = {} /\ concelhoExists) => pc # "except"
    /\ \A i \in DOMAIN segLog :
        (/\ segLog[i].mode = "async"
         /\ segLog[i].failed # {}
         /\ 1 \notin segLog[i].failed) =>
            /\ segLog[i].pages =
                  (1..Min(segLog[i].total, MaxPages)) \ segLog[i].failed
            /\ segLog[i].pages_scraped = Cardinality(segLog[i].pages)
            /\ EarlierCardsCommitted(i)
            /\ segLog[i].run \in DOMAIN outcomes => RunSucceeded(i)

\* C16 witness: the second of 59 pages failed; the other pages of its batch
\* and the later batches were processed and the run returned
C16_Witness ==
    \E i \in DOMAIN segLog :
        /\ segLog[i].mode = "async"
        /\ segLog[i].failed = {2}
        /\ segLog[i].total = MAX_PAGES_LIMIT - 1
        /\ segLog[i].pages_scraped = MAX_PAGES_LIMIT - 2
        /\ segLog[i].run \in DOMAIN outcomes
        /\ RunSucceeded(i)

\* the location/operation/property-type combinations of segLog[i]'s run that
\* have a finished segment
CombosCrawled(i) == {segLog[j].combo : j \in {k \in DOMAIN segLog : segLog[k].run = segLog[i].run}}

\* C17: If a segment's first page cannot be fetched, that segment ends with
\* zero pages scraped, no listing persisted and no follow-up segment, and the
\* run continues with the next location/operation/property-type combination
\* instead of failing.
C17_FirstPageFailure ==
    /\ (parsePlan = {} /\ concelhoExists) => pc # "except"
    /\ \A i \in DOMAIN segLog :
        1 \in segLog[i].failed =>
            /\ segLog[i].pages_scraped = 0 /\ segLog[i].pages = {}
            /\ segLog[i].cards = <<>>
            /\ segLog[i].created = 0 /\ segLog[i].updated = 0
            /\ segLog[i].rows = segLog[i].rows_before
            /\ segLog[i].next_max_price = None
            /\ segLog[i].run \in DOMAIN outcomes =>
                  /\ RunSucceeded(i)
                  /\ CombosCrawled(i) = 1..config.ncombos

\* C17 witness: the first page of the first of two combinations failed in
\* concurrent mode; the second combination was crawled and the run returned
C17_Witness ==
    \E i \in DOMAIN segLog :
        /\ segLog[i].mode = "async"
        /\ 1 \in segLog[i].failed
        /\ segLog[i].combo = 1
        /\ segLog[i].run \in DOMAIN outcomes
        /\ RunSucceeded(i)
        /\ \E j \in DOMAIN segLog :
              /\ segLog[j].run = segLog[i].run
              /\ segLog[j].combo = 2
              /\ segLog[j].pages_scraped >= 1

\* C18: In sequential mode, after a page fetch fails for a segment no further
\* page of that segment is fetched, and the run still proceeds through all
\* remaining location/operation/property-type combinations and ends with
\* status success.
C18_SequentialPageFailure ==
    /\ (config.mode = "sync" /\ parsePlan = {} /\ concelhoExists) =>
          /\ pc # "except"
          /\ \A p \in segFetchFailed : \A q \in segPages : q < p
          /\ segFetchFailed # {} => pc # "sync_page"
    /\ \A i \in DOMAIN segLog :
        (segLog[i].mode = "sync" /\ segLog[i].failed # {}) =>
            /\ \E p \in segLog[i].failed :
                  /\ segLog[i].failed = {p}
                  /\ segLog[i].pages = 1..(p - 1)
                  /\ segLog[i].pages_scraped = p - 1
            /\ segLog[i].run \in DOMAIN outcomes =>
                  /\ RunSucceeded(i)
                  /\ CombosCrawled(i) = 1..config.ncombos

\* C18 witness: the second page of the first of two combinations failed in
\* sequential mode after the first was committed; the second combination was
\* crawled in full and the run returned
C18_Witness ==
    \E i \in DOMAIN segLog :
        /\ segLog[i].mode = "sync"
        /\ segLog[i].failed = {2}
        /\ segLog[i].pages = {1}
        /\ segLog[i].combo = 1
        /\ segLog[i].run \in DOMAIN outcomes
        /\ RunSucceeded(i)
        /\ \E j \in DOMAIN segLog :
              /\ segLog[j].run = segLog[i].run
              /\ segLog[j].combo = 2
              /\ segLog[j].failed = {}
              /\ segLog[j].pages_scraped = segLog[j].total

\* C19: A page whose HTML cannot be parsed (the parser raises an exception)
\* never aborts the run, in either mode: the failure is caught at the driver
\* boundary, the page is treated as skipped, and the run continues and can
\* still end with status success.
C19_ParseErrorNeverAborts ==
    parsePlan # {} =>
        /\ pc # "except"
        /\ \A k \in DOMAIN outcomes :
              /\ outcomes[k].kind = "returned"
              /\ dbRuns[k].status = "success"

\* a row's enrichment columns that hold a value
NonNullFields(d) ==
    {f \in {"typology"} : d.typology # NoneStr}
        \cup {f \in {"area_gross"} : d.area_gross # None}
        \cup {f \in {"bedrooms"} : d.bedrooms # None}

\* the enrichment columns for which a card's parse gave nothing
NullParsedFields(d) == {"typology", "area_gross", "bedrooms"} \ NonNullFields(d)

\* every update of a row leaves the columns that held a value with a value,
\* and leaves them unchanged where the card's parse gave null
UpdatesKeepDetails ==
    \A k \in DOMAIN upsertLog :
        LET e == upsertLog[k]
        IN  ~e.created =>
              /\ NonNullFields(e.before) \subseteq NonNullFields(e.after)
              /\ \A f \in NonNullFields(e.before) \cap NullParsedFields(e.parsed) :
                    e.after[f] = e.before[f]

\* no step takes a value away from a committed row
RowsKeepDetails ==
    \A i \in DOMAIN dbListings :
        /\ i \in DOMAIN dbListings'
        /\ NonNullFields(DetailsOf(dbListings[i]))
              \subseteq NonNullFields(DetailsOf(dbListings'[i]))

\* C20: Monotonic enrichment on card updates: once a listing's typology,
\* area_gross or bedrooms is non-null, no later card update whose parsed value
\* for that field is null changes it; the field keeps a non-null value across
\* any sequence of updates.
C20_MonotonicEnrichment == []UpdatesKeepDetails /\ [][RowsKeepDetails]_vars

\* C20 witness: in the invocation after MaxRuns earlier ones, a row holding
\* typology, area_gross and bedrooms is updated from a card whose details
\* parse to nothing, and keeps all three
C20_Witness ==
    /\ runNo = MaxRuns + 1
    /\ \E k \in DOMAIN upsertLog :
          /\ ~upsertLog[k].created
          /\ upsertLog[k].before = [typology |-> "T2", area_gross |-> 90, bedrooms |-> 2]
          /\ upsertLog[k].parsed = NullDetails
          /\ upsertLog[k].after = upsertLog[k].before
          /\ DetailsOf(dbListings[1]) = upsertLog[k].before

\* C21: When no Concelho exists for a segment's location slug, each new
\* listing of that segment is still persisted, with concelho_id = null, and
\* the crawl continues without error.
C21_MissingConcelhoPersisted ==
    ~concelhoExists =>
        /\ pc # "except"
        /\ \A k \in DOMAIN outcomes : outcomes[k].kind = "returned"
        /\ \A i \in DOMAIN segLog :
              \A a \in DOMAIN segLog[i].cards :
                  \E r \in DOMAIN dbListings :
                      /\ dbListings[r].idealista_id = segLog[i].cards[a]
                      /\ dbListings[r].concelho_id = None

\* the ids of the cards processed in the finished segments of invocation r
CardsOfRun(r) ==
    UNION {{segLog[j].cards[a] : a \in DOMAIN segLog[j].cards} :
              j \in {k \in DOMAIN segLog : segLog[k].run = r}}

\* every committed Listing row is active
AllActive == \A i \in DOMAIN dbListings : dbListings[i].is_active

\* no step removes or deactivates a committed Listing row or removes or
\* alters a committed ListingHistory row
RowsKept ==
    /\ Len(dbListings') >= Len(dbListings)
    /\ Len(dbHistory') >= Len(dbHistory)
    /\ \A i \in DOMAIN dbListings :
          /\ dbListings'[i].idealista_id = dbListings[i].idealista_id
          /\ dbListings'[i].is_active
    /\ \A i \in DOMAIN dbHistory : dbHistory'[i] = dbHistory[i]

C23_RetryUntil ==
    /\ Len(calls) <= retryArgs.max_retries + 1
    /\ \A k \in DOMAIN calls :
          /\ calls[k] = funcPlan[k]
          /\ k < Len(calls) => calls[k] \in retryArgs.retryable_exceptions
    /\ (retryPc \in {"try", "sleep"} /\ calls # <<>>) =>
          /\ calls[Len(calls)] \in retryArgs.retryable_exceptions
          /\ Len(calls) < retryArgs.max_retries + 1
    /\ retryPc = "done" =>
          /\ calls # <<>>
          /\ IF calls[Len(calls)] = "ok"
             THEN retryOutcome = [kind |-> "returned", value |-> Len(calls),
                                  exception |-> <<>>]
             ELSE /\ retryOutcome = [kind |-> "raised", value |-> 0,
                                     exception |-> <<calls[Len(calls)], Len(calls)>>]
                  /\ \/ calls[Len(calls)] \notin retryArgs.retryable_exceptions
                     \/ Len(calls) = retryArgs.max_retries + 1
    /\ retryPc # "done" => retryOutcome = NoOutcome

\* C23 witness: with max_retries = MaxRetries every attempt failed with a
\* retryable exception and the last one's exception was raised
C23_Witness ==
    /\ retryPc = "done"
    /\ retryArgs.max_retries = MaxRetries
    /\ Len(calls) = MaxRetries + 1
    /\ calls[Len(calls)] = "ConnectionError"
    /\ calls[1] = "ValueError"
    /\ retryOutcome.kind = "raised"
    /\ retryOutcome.exception = <<"ConnectionError", MaxRetries + 1>>

\* C24: The delay requested before retry k (k = 0 after the first failed
\* attempt) is min(base_delay * exponential_base^k, max_delay): delays are
\* non-decreasing, never exceed max_delay, exactly one delay is requested per
\* retry, and none after the final failed attempt.
C24_BackoffDelays ==
    /\ \A k \in DOMAIN sleeps :
          /\ sleeps[k] = Min(retryArgs.base_delay
                                * Pow(retryArgs.exponential_base, k - 1),
                             retryArgs.max_delay)
          /\ sleeps[k] <= retryArgs.max_delay
          /\ k > 1 => sleeps[k - 1] <= sleeps[k]
    /\ retryPc = "try" => Len(sleeps) = Len(calls)
    /\ retryPc \in {"sleep", "done"} => Len(sleeps) = Len(calls) - 1

\* C24 witness: all MaxRetries + 1 attempts failed; the first delay was below
\* max_delay, the last one was capped by it, and no delay followed the last
\* attempt
C24_Witness ==
    /\ retryPc = "done"
    /\ retryOutcome.kind = "raised"
    /\ Len(calls) = MaxRetries + 1
    /\ Len(sleeps) = MaxRetries
    /\ sleeps[1] < retryArgs.max_delay
    /\ sleeps[MaxRetries] = retryArgs.max_delay
    /\ retryArgs.base_delay * Pow(retryArgs.exponential_base, MaxRetries - 1)
          > retryArgs.max_delay

\* the districts of a parsed homepage that carry no concelhos
DistrictsWithout(parsed) ==
    {parsed[i].slug : i \in {k \in DOMAIN parsed : parsed[k].concelhos = <<>>}}

\* how many times url occurs in a list of fetches
Fetches(log, url) == Cardinality({i \in DOMAIN log : log[i] = url})

\* C25: A pre-scrape run fetches the homepage exactly once and then issues
\* exactly one follow-up fetch for each district whose parsed homepage data
\* carries no concelhos, and no follow-up fetch for districts that already
\* carry concelhos.
C25_PreScrapeFetches ==
    /\ prePc \in {"fetch_all", "process"} => fetchLog[1] = HomeUrl
    /\ Fetches(fetchLog, HomeUrl) <= 1
    /\ \A d \in 1..MaxDistricts :
          Fetches(fetchLog, d) <= IF d \in DistrictsWithout(homepage) THEN 1 ELSE 0
    /\ \A r \in DOMAIN preOutcomes :
          /\ Fetches(preOutcomes[r].fetches, HomeUrl) = 1
          /\ preOutcomes[r].fetches[1] = HomeUrl
          /\ preOutcomes[r].kind = "returned" =>
                \A d \in 1..MaxDistricts :
                    Fetches(preOutcomes[r].fetches, d)
                        = IF d \in DistrictsWithout(preOutcomes[r].parsed)
                          THEN 1 ELSE 0

\* C25 witness: a run of the concurrent driver has returned over a homepage of
\* MaxDistricts districts, the first without concelhos and the last with
\* concelhos: one follow-up fetch for the first, none for the last
C25_Witness ==
    \E r \in DOMAIN preOutcomes :
        /\ preMode = "async"
        /\ preOutcomes[r].kind = "returned"
        /\ Len(preOutcomes[r].parsed) = MaxDistricts
        /\ 1 \in DistrictsWithout(preOutcomes[r].parsed)
        /\ MaxDistricts \notin DistrictsWithout(preOutcomes[r].parsed)
        /\ Len(preOutcomes[r].fetches) = Cardinality(DistrictsWithout(preOutcomes[r].parsed)) + 1
        /\ Fetches(preOutcomes[r].fetches, 1) = 1

\* how many logged upserts of a table found (or did not find) their slug
Upserted(log, table, existed) ==
    Cardinality({i \in DOMAIN log : log[i].table = table /\ log[i].existed = existed})

\* C26: Districts and concelhos are upserted by slug in both pre-scrape
\* drivers: processing a slug that already exists updates that row and is
\* counted as updated, a new slug inserts a row and is counted as created, so
\* a second pre-scrape of the same geography leaves exactly one row per slug
\* and reports districts_created = 0 and concelhos_created = 0.
C26_GeographyUpsertBySlug ==
    /\ \A i, j \in DOMAIN dbDistricts :
          dbDistricts[i].slug = dbDistricts[j].slug => i = j
    /\ \A i, j \in DOMAIN dbConcelhos :
          dbConcelhos[i].slug = dbConcelhos[j].slug => i = j
    /\ \A r \in DOMAIN preOutcomes :
          preOutcomes[r].kind = "returned" =>
              /\ preOutcomes[r].stats.districts_created
                    = Upserted(preOutcomes[r].upserts, "district", FALSE)
              /\ preOutcomes[r].stats.districts_updated
                    = Upserted(preOutcomes[r].upserts, "district", TRUE)
              /\ preOutcomes[r].stats.concelhos_created
                    = Upserted(preOutcomes[r].upserts, "concelho", FALSE)
              /\ preOutcomes[r].stats.concelhos_updated
                    = Upserted(preOutcomes[r].upserts, "concelho", TRUE)
              /\ (r > 1 /\ preFail = {}) =>
                    /\ preOutcomes[r].stats.districts_created = 0
                    /\ preOutcomes[r].stats.concelhos_created = 0

\* the rows whose detail page the current (or the last) details run requested
DetProcessed == {detFetched[k] : k \in DOMAIN detFetched}

\* the rows that were active and lacked description or energy_class when the
\* run started
DetEligible ==
    {i \in DOMAIN detBefore :
        /\ detBefore[i].is_active = TRUE
        /\ NoneStr \in {detBefore[i].description, detBefore[i].energy_class}}

\* row i is what it was when the run started, but for its rank by last_seen
DetUntouched(i) ==
    [detListings[i] EXCEPT !.last_seen = 0] = [detBefore[i] EXCEPT !.last_seen = 0]

C28_FirstMatchWins ==
    detRunNo > 0 =>
        \A i \in DOMAIN detListings :
            /\ \A f \in {"has_elevator", "has_pool", "condition"} :
                  detBefore[i][f] # NoneStr => detListings[i][f] = detBefore[i][f]
            /\ detBefore[i].year_built # None =>
                  detListings[i].year_built = detBefore[i].year_built

\* what a command does beyond reading its configuration and logging
DbOrNetwork ==
    {"init_db", "get_session_factory", "create_client", "create_async_client",
     "CostTracker", "run"}

\* the invocation did nothing of DbOrNetwork
NoDbNoNetwork == \A k \in DOMAIN effects : effects[k] \notin DbOrNetwork

\* C29 as stated: with --dry-run, prescrape, scrape and scrape-details
\* initialise no schema, open no session, build no client and run no driver,
\* in either mode, and exit with code 0.
C29_DryRunAlwaysZero ==
    cliArgs.dry_run =>
        /\ NoDbNoNetwork
        /\ cliPc = "exit" => exit_code = 0

\* C29, amended: with --dry-run the three commands initialise no schema, open
\* no session, build no client and run no driver, in either mode; they exit
\* with code 0 when the options are valid and, for scrape, the configuration
\* names a location, and scrape without a location exits with code 1.
C29_DryRunNoEffects ==
    cliArgs.dry_run =>
        /\ NoDbNoNetwork
        /\ (cliPc = "exit" /\ cliArgs.config # "missing") =>
              exit_code = IF cliArgs.command = "scrape" /\ ~cliArgs.locations
                          THEN 1 ELSE 0

\* a --dry-run --async scrape-details that returned
C29_Witness ==
    /\ cliArgs.dry_run /\ cliArgs.use_async
    /\ cliArgs.command = "scrape-details"
    /\ cliPc = "exit" /\ exit_code = 0
    /\ effects = <<"setup_logging", "load_config", "log_dry_run">>

\* the pages handed to the fetch tasks of the current batch
TaskPages == {tasks[i] : i \in DOMAIN tasks}

\* the cards of the segment's first page are the first ones it processed
FirstPageProcessed ==
    /\ 1 \in segPages
    /\ LET first == CardIds(ParseListingsPage(segment, 1).listings)
       IN /\ Len(first) <= Len(segCards)
          /\ SubSeq(segCards, 1, Len(first)) = first

\* C30: in the concurrent driver, while the first page of a segment is to be
\* fetched no fetch task exists or is in flight; page 1 is never one of the
\* pages of a batch; and a batch's tasks exist only once the first page of
\* the segment has been fetched, parsed and its cards processed.
C30_FirstPageAlone ==
    /\ pc = "async_first" => (tasks = <<>> /\ inflight = {})
    /\ inflight \subseteq TaskPages
    /\ \A p \in TaskPages : p >= 2
    /\ TaskPages # {} => FirstPageProcessed

\* two fetches of a batch in flight at once, after the first page gave cards
C30_Witness ==
    /\ pc = "batch_fetch"
    /\ Cardinality(inflight) >= 2
    /\ FirstPageProcessed
    /\ segCards # <<>>

\* C31: in the concurrent driver the fetch tasks that exist are those of the
\* current batch only; when they exist, every page of the earlier batches
\* has had its result processed (its cards upserted, or skipped as failed)
\* and the earlier batch's commit is done: the store holds what the session
\* holds.
C31_BatchesSequential ==
    tasks # <<>> =>
        /\ \A p \in TaskPages : page <= p /\ p <= page + BatchSize - 1
        /\ \A q \in 2..(page - 1) : q \in segPages \cup segFetchFailed
        /\ page > 2 => (dbListings = listings /\ dbHistory = history)

\* a fetch of the second batch in flight, after a first batch that gave cards
C31_Witness ==
    /\ pc = "batch_fetch"
    /\ page > 2
    /\ inflight # {}
    /\ \E q \in 2..(page - 1) : q \in segPages
    /\ Len(dbListings) > segStartRows

\* a step that writes: it changes the session's rows or the committed store
PersistenceStep ==
    \/ listings' # listings \/ history' # history
    \/ dbListings' # dbListings \/ dbHistory' # dbHistory \/ dbRuns' # dbRuns

\* C32: in the concurrent driver a step that upserts or commits is taken only
\* while no fetch is in flight and every task of the batch has delivered its
\* result; the steps of the fetch tasks themselves write nothing.
C32_SingleWriter ==
    [][PersistenceStep =>
          /\ inflight = {}
          /\ \A p \in TaskPages : \E k \in DOMAIN completed : completed[k].page_num = p
          /\ inflight' = inflight /\ completed' = completed]_vars

\* a batch of at least two pages fetched under concurrency 2 or more has been
\* processed and committed
C32_Witness ==
    /\ config.concurrency >= 2
    /\ pc \in {"async_batch", "segment_end"}
    /\ tasks = <<>> /\ Len(completed) >= 2
    /\ \E k \in DOMAIN completed : completed[k].page_num \in segPages
    /\ dbListings = listings /\ Len(dbListings) > segStartRows

\* C33: in the sequential driver the pages of a segment whose cards were
\* processed are 1..n for some n, only page n + 1 can have failed to be
\* fetched, and when page k is about to be fetched the pages 1..k-1 have
\* all been processed and committed: the store holds what the session holds.
C33_SequentialPageOrder ==
    (config.mode = "sync" /\ pc \in {"sync_page", "segment_end"}) =>
        /\ \E n \in 0..MAX_PAGES_LIMIT :
              segPages = 1..n /\ segFetchFailed \subseteq {n + 1}
        /\ pc = "sync_page" =>
              /\ segPages = 1..(page - 1)
              /\ segFetchFailed = {}
              /\ dbListings = listings /\ dbHistory = history

\* the sequential driver about to fetch a third page, the cards of the first
\* two in the store
C33_Witness ==
    /\ config.mode = "sync"
    /\ pc = "sync_page"
    /\ page >= 3
    /\ Len(segCards) >= 2
    /\ Len(dbListings) >= segStartRows + 2

\* min(last page reported by page 1, max_pages, 60) for the current segment
ExpectedTotalPages ==
    LET md == ParseListingsPage(segment, 1).metadata
        last == IF md.last_page = None THEN 1 ELSE md.last_page
        cap == IF config.max_pages = None THEN MAX_PAGES_LIMIT ELSE config.max_pages
    IN Min(Min(last, cap), MAX_PAGES_LIMIT)

\* the pages of the current segment that were fetched and handled
SegFetched == segPages \cup segFetchFailed

\* C34: in the concurrent driver the tasks of a batch are the consecutive
\* pages from the batch start, at most 2 x concurrency of them and none
\* beyond total_pages, none of them fetched before and none twice; no page
\* outside 1..total_pages is ever fetched, and a segment whose first page was
\* fetched ends with every page 1..total_pages fetched.
C34_BatchPagesOnce ==
    pc \in {"async_batch", "batch_fetch", "segment_end"} =>
        /\ Cardinality(TaskPages) = Len(tasks)
        /\ tasks # <<>> =>
              /\ page >= 2 /\ (page - 2) % (2 * config.concurrency) = 0
              /\ TaskPages = page..Min(page + 2 * config.concurrency - 1,
                                       ExpectedTotalPages)
              /\ TaskPages \cap SegFetched = {}
        /\ pc = "batch_fetch" =>
              /\ \A j, k \in DOMAIN completed :
                    completed[j].page_num = completed[k].page_num => j = k
              /\ \A k \in DOMAIN completed : completed[k].page_num \in TaskPages \ inflight
        /\ SegFetched \subseteq 1..ExpectedTotalPages
        /\ (pc = "segment_end" /\ 1 \in segPages) =>
              SegFetched = 1..ExpectedTotalPages

\* a segment of more than 60 pages ended with the pages 1..60 fetched
C34_Witness ==
    /\ pc = "segment_end"
    /\ TotalPagesOf(segment) > MAX_PAGES_LIMIT
    /\ segPages = 1..MAX_PAGES_LIMIT

\* the entries of the cache are kept as they are
CacheKept ==
    \A k \in DOMAIN concelho_cache :
        k \in DOMAIN concelho_cache' /\ concelho_cache'[k] = concelho_cache[k]

\* the upserts of a step queried the store for a slug only if the slug was
\* not cached when the step began and no earlier upsert of the step had
\* looked it up; each got the value the cache holds for its slug afterwards
LookupsCached ==
    \A k \in DOMAIN upsertLog' :
        LET e == upsertLog'[k] IN
        /\ e.slug \in DOMAIN concelho_cache'
        /\ e.concelho = concelho_cache'[e.slug]
        /\ e.queried <=>
              /\ e.slug \notin DOMAIN concelho_cache
              /\ \A j \in 1..(k - 1) : upsertLog'[j].slug # e.slug

\* C35: within one run() of a driver instance an entry of the Concelho cache
\* is never changed or removed, the store is queried for a slug only by the
\* first lookup of that slug, and every lookup returns the cached value.
C35_ConcelhoCache ==
    [][runNo' = runNo =>
          /\ CacheKept
          /\ upsertLog' # upsertLog => LookupsCached]_vars

\* a page cycle whose first upsert found its slug cached by an earlier page
C35_Witness ==
    /\ upsertLog # <<>>
    /\ ~upsertLog[1].queried
    /\ upsertLog[1].created
    /\ upsertLog[1].concelho = ConcelhoId
    /\ concelho_cache[upsertLog[1].slug] = ConcelhoId

\* segLog[i] is the finished parent of the segment being crawled
ParentOfCurrent(i) ==
    /\ i \in DOMAIN segLog
    /\ segLog[i].run = runNo
    /\ segLog[i].combo = combo
    /\ segLog[i].idx + 1 = segIdx

\* seg is a segment strictly below its parent
StrictlyBelow(seg, parent) ==
    /\ seg # parent
    /\ parent.max_price # None => seg.max_price < parent.max_price

\* C36: Strict progress of segmentation.  Within one location each follow-up
\* segment's max_price is strictly lower than its parent segment's max_price
\* (an absent max_price being above every price), so no segment is crawled
\* twice.
C36_StrictProgress ==
    \A i \in DOMAIN segLog :
        /\ FollowUp(i) => StrictlyBelow(segLog[i + 1].segment, segLog[i].segment)
        /\ ParentOfCurrent(i) => StrictlyBelow(segment, segLog[i].segment)

\* a task of the batch can enter the semaphore, a fetch in flight can return,
\* or gather can return
BatchCanProceed ==
    \/ Waiting # {} /\ SemaphoreFree
    \/ inflight # {}
    \/ Len(completed) = Len(tasks)

\* C37: Permit conservation.  _fetch_page releases its permit on success and
\* on failure and turns a fetch exception into a FetchResult with html null
\* instead of raising: outside a batch no permit is held, while a batch is
\* being fetched no exception is pending, every finished task of a failing
\* page has html null, its permit is released, and the batch can always
\* proceed (a waiting task can start, a fetch can return, or gather returns).
C37_PermitConservation ==
    /\ pc # "batch_fetch" => inflight = {}
    /\ pc = "batch_fetch" =>
          /\ exc = NoError
          /\ \A k \in DOMAIN completed :
                /\ completed[k].page_num \notin inflight
                /\ FetchFails(completed[k].page_num) <=> completed[k].html = None
          /\ BatchCanProceed

\* a batch larger than the concurrency limit has been fetched and processed,
\* one of its fetches having failed, and no permit is held
C37_Witness ==
    /\ pc \notin {"batch_fetch", "async_batch"}
    /\ Len(completed) > config.concurrency
    /\ \E k \in DOMAIN completed : completed[k].html = None
    /\ \E k \in DOMAIN completed : completed[k].html # None
    /\ segPages # {}
    /\ inflight = {}

\* what the finished segments 1..n of invocation `run` show, added to acc: the
\* segments crawled, the pages whose cards were processed, and those cards
RECURSIVE RunTally(_, _, _)
RunTally(run, n, acc) ==
    IF n = 0 THEN acc
    ELSE RunTally(run, n - 1,
             IF segLog[n].run # run THEN acc
             ELSE [segments |-> acc.segments + 1,
                   pages |-> acc.pages + Cardinality(segLog[n].pages),
                   cards |-> acc.cards + Len(segLog[n].cards)])

\* C38: At the end of every successful listings run, in either mode,
\* listings_processed = listings_created + listings_updated, pages_scraped is
\* the number of pages whose listings were processed, segments_scraped is
\* the number of segments crawled, and the stored run record's
\* listings_processed/created/updated equal the returned statistics.
C38_StatsConsistent ==
    \A k \in DOMAIN outcomes :
        outcomes[k].kind = "returned" =>
            LET stats == outcomes[k].stats
                seen == RunTally(k, Len(segLog), [segments |-> 0, pages |-> 0, cards |-> 0])
            IN  /\ stats.listings_processed =
                       stats.listings_created + stats.listings_updated
                /\ stats.listings_processed = seen.cards
                /\ stats.pages_scraped = seen.pages
                /\ stats.segments_scraped = seen.segments
                /\ dbRuns[k].status = "success"
                /\ dbRuns[k].listings_processed = stats.listings_processed
                /\ dbRuns[k].listings_created = stats.listings_created
                /\ dbRuns[k].listings_updated = stats.listings_updated

\* a successful run over more than one segment that created and updated rows
C38_Witness ==
    \E k \in DOMAIN outcomes :
        /\ outcomes[k].kind = "returned"
        /\ outcomes[k].stats.segments_scraped >= 2
        /\ outcomes[k].stats.pages_scraped > MAX_PAGES_LIMIT
        /\ outcomes[k].stats.listings_created >= 1
        /\ outcomes[k].stats.listings_updated >= 1
        /\ dbRuns[k].listings_processed = outcomes[k].stats.listings_processed

\* first_seen is no later than last_seen, and neither is ahead of the clock
SeenOrdered(rows) ==
    \A i \in DOMAIN rows :
        /\ rows[i].first_seen <= rows[i].last_seen
        /\ rows[i].last_seen <= Now

\* the stored rows keep their first_seen and their last_seen does not decrease
StoredSeenKept ==
    \A i \in DOMAIN dbListings :
        /\ i \in DOMAIN dbListings'
        /\ dbListings'[i].first_seen = dbListings[i].first_seen
        /\ dbListings'[i].last_seen >= dbListings[i].last_seen

\* every card upserted by the step left a row last seen now, first seen now
\* if the step created it and first seen as before if the row existed
SightingsRefreshed ==
    \A k \in DOMAIN upsertLog' :
        \E i \in DOMAIN listings' :
            /\ listings'[i].idealista_id = upsertLog'[k].idealista_id
            /\ listings'[i].last_seen = Now'
            /\ IF i \in DOMAIN listings
               THEN listings'[i].first_seen = listings[i].first_seen
               ELSE listings'[i].first_seen = Now'

PageCap ==
    IF config.max_pages = None \/ config.max_pages > MAX_PAGES_LIMIT
    THEN MAX_PAGES_LIMIT ELSE config.max_pages

\* C40: A segment never fetches more than min(max_pages, 60) pages in either
\* mode, and when max_pages is configured below 60 no segment yields a
\* follow-up segment: each location is crawled in exactly one segment.
C40_PageCap ==
    /\ (segPages \cup segFetchFailed) \subseteq 1..PageCap
    /\ pc = "sync_page" => page <= PageCap
    /\ total_pages <= PageCap
    /\ \A i \in DOMAIN segLog :
          (segLog[i].pages \cup segLog[i].failed) \subseteq 1..PageCap
    /\ (config.max_pages # None /\ config.max_pages < MAX_PAGES_LIMIT) =>
          /\ segIdx <= 1
          /\ segStats.next_max_price = None
          /\ \A i \in DOMAIN segLog :
                segLog[i].idx = 1 /\ segLog[i].next_max_price = None

\* a location with more result pages than the page limit, crawled under a
\* page cap below the limit, is done after one segment of exactly cap pages
C40_Witness ==
    /\ config.max_pages = MAX_PAGES_LIMIT - 1
    /\ pc = "idle"
    /\ Len(segLog) = 1
    /\ segLog[1].total > MAX_PAGES_LIMIT
    /\ segLog[1].pages = 1..(MAX_PAGES_LIMIT - 1)
    /\ segLog[1].lowest # None

====
